---------------------------- MODULE Spec2Model ----------------------------
(***************************************************************************)
(* State-tracking engine of telegram-backup: the SQLite store              *)
(* (state_db.DatabaseManager), the JSON store (state_manager.StateManager, *)
(* GlobalStateManager), the duplicate check of the downloader              *)
(* (downloader.MediaDownloader._download_media) and writers that share     *)
(* the database file through separate connections.                         *)
(*                                                                         *)
(* Conventions.  A message id is a number of 1..MaxMsg.  A path is a pair  *)
(* <<name, counter>>: counter 0 is directory/name, counter n > 0 is the    *)
(* name_n variant utils.get_unique_filepath produces.  A file content is a *)
(* number of 1..MaxContent; its sample hash is the content itself, its     *)
(* size is SizeOf(content) (two contents may share a size).  A hash key    *)
(* f"{size}:{hash}" is the pair <<size, hash>>.  None, NULL, and a missing *)
(* file are 0.  A Python or SQLite value that may be an integer or a       *)
(* string is tagged: the integer n is <<"i", n>>, the decimal string str(n)*)
(* is <<"s", n>>, 'global' is <<"global", 0>> and f"global:{path}" is      *)
(* <<"global:", path>>.  A table is the set of its rows, a dict that is    *)
(* only looked up by key is a function on its keys, a dict or list whose   *)
(* order the code depends on is a sequence.                                *)
(***************************************************************************)
EXTENDS Integers, Sequences, FiniteSets, TLC

\* ---------------------------------------------------------------- bounds
MaxMsg == 2
MaxName == 2
MaxSuffix == 1
MaxContent == 2
MaxOps == 3
MaxWriter == 2
MaxCalls == 3
MaxListed == 4
MaxRuns == 2
MaxFiles == 3
MaxSeconds == 3
MaxItems == 4
MaxPool == 3
MaxBytes == 3

Msgs == 1..MaxMsg
Names == 1..MaxName
Paths == Names \X (0..MaxSuffix)
BasePaths == {p \in Paths : p[2] = 0}
Contents == 1..MaxContent
SizeOf(c) == (c + 1) \div 2
Sizes == {SizeOf(c) : c \in Contents}
Hashes == Contents
Writers == 1..MaxWriter

VARIABLES
    sqlSM,      \* a StateManager with use_db = TRUE  (SQLite backend)
    jsonSM,     \* a StateManager with use_db = FALSE (JSON backend)
    disk,       \* the backup tree: path -> content of the file there, 0 = no file
    op,         \* the last store operation applied: its name and arguments
    ret,        \* what it returned, per backend
    nops,       \* number of operations applied so far
    firstReg,   \* per backend and key: the paths register was called with, in order
    sm,         \* the downloader's state_manager
    pc,         \* per message: where its download task is
    filepath,   \* per message: the path _download_media chose for the download
    retries,    \* per message: _download_media's retries counter
    fetched,    \* per message: the content download_media returned, 0 = none
    finished,   \* the messages whose task left the critical section, in order
    conn,       \* per writer: position of its call on its own connection
    seen,       \* per writer: what its read statement returned
    outcome,    \* per writer: how its call ended
    shared,     \* the database file the writers share
    live,       \* the StateManager of the running backup process
    state_file, \* the chat's JSON state file on disk
    at,         \* where the running process is inside mark_downloaded
    pending,    \* the arguments of the mark_downloaded call in progress
    committed,  \* per message: the record of the last call that returned
    calls,      \* number of mark_downloaded calls started
    seeded,     \* <<the database seed_from_json built>>, <<>> before the import
    exported,   \* <<the JSON state exported back from it>>, <<>> before the export
    validation, \* the last validate_downloaded_file call: its message and result
    local_tree, \* sync_state: the paths scan_local_files finds, in listing order
    remote_tree,\* sync_state: the paths scan_remote_files finds, in listing order
    store,      \* sync_state: the state database
    runs,       \* sync_state: number of runs so far
    last,       \* sync_state: what the last run started from and resolved
    folder,     \* consolidation: the chat folder, file name -> the file there
    quarantine, \* consolidation: the duplicates folder, file name -> the file there
    placed,     \* consolidation: the files the backup has put into the chat folder
    sweeps,     \* consolidation: number of consolidation runs so far
    posix,      \* consolidation: os.rename replaces an existing destination
    book,       \* consolidation: the item store of the backup directory
    last_sweep, \* consolidation: what the last run found, kept and moved
    scan_root, \* duplicate scanner: the tree under the scanned root, path -> entry
    scan_log,  \* duplicate scanner: the scans of the tree since it last changed
    history,   \* retry loop: per message, what each download_media call came back with
    slept,     \* retry loop: per message, the seconds of each asyncio.sleep
    medium,    \* store errors: whether the database file can be opened and whether writes succeed
    run,       \* store errors: the run in progress, what its StateManager met and how it went on
    reported,  \* store errors: the messages the run reported as downloaded
    limit,     \* worker pool: self.max_concurrent_downloads
    messages,  \* worker pool: the candidate messages the source returns, in order
    to_yield,  \* worker pool: those _iter_messages_by_id has not yielded yet
    started,   \* worker pool: the messages a task was created for, in order
    running_tasks, \* worker pool: the local set running_tasks
    task,      \* worker pool: per message, where its process_single_message task is
    loop,      \* worker pool: where _process_messages is
    chats,     \* the chats table of telegram_backup.db
    chat_items, \* the messages rows, as pairs of chat_id and the folder they were found in
    folders,   \* the chat folders of the backup directory
    holder,    \* per chat title, the backends that hold records of it
    sm_row,    \* per chat title, the chat_id its StateManager got (0: none yet)
    sync_row,  \* per name, the chat_id sync_state resolved (0: none yet)
    dry_runs,  \* dry runs of sync_state so far
    chat_errors,\* the names get_or_create_chat raised for
    transfer_file, \* the state of .cloud_transfer_state.json
    transfer_call \* the last call of _handle_auto_cloud_transfer: its inputs and the file of before

storeVars == <<sqlSM, jsonSM, op, ret, nops, firstReg>>
dlVars == <<sm, pc, filepath, retries, fetched, finished>>
connVars == <<conn, seen, outcome, shared>>
persistVars == <<live, state_file, at, pending, committed, calls>>
migrateVars == <<seeded, exported>>
validateVars == <<validation>>
syncVars == <<local_tree, remote_tree, store, runs, last>>
consVars == <<folder, quarantine, placed, sweeps, posix, book, last_sweep>>
scanVars == <<scan_root, scan_log>>
retryVars == <<history, slept>>
faultVars == <<medium, run, reported>>
poolVars == <<limit, messages, to_yield, started, running_tasks, task, loop>>
chatVars == <<chats, chat_items, folders, holder, sm_row, sync_row, dry_runs, chat_errors>>
transferVars == <<transfer_file, transfer_call>>
toolVars == <<persistVars, migrateVars, validateVars, syncVars, consVars, scanVars, retryVars, faultVars, poolVars, chatVars, transferVars>>
notPersist == <<migrateVars, validateVars, syncVars, consVars, scanVars, retryVars, faultVars, poolVars, chatVars, transferVars>>
notMigrate == <<persistVars, validateVars, syncVars, consVars, scanVars, retryVars, faultVars, poolVars, chatVars, transferVars>>
notValidate == <<persistVars, migrateVars, syncVars, consVars, scanVars, retryVars, faultVars, poolVars, chatVars, transferVars>>
notSync == <<persistVars, migrateVars, validateVars, consVars, scanVars, retryVars, faultVars, poolVars, chatVars, transferVars>>
notCons == <<persistVars, migrateVars, validateVars, syncVars, scanVars, retryVars, faultVars, poolVars, chatVars, transferVars>>
notScan == <<persistVars, migrateVars, validateVars, syncVars, consVars, retryVars, faultVars, poolVars, chatVars, transferVars>>
notRetry == <<persistVars, migrateVars, validateVars, syncVars, consVars, scanVars, faultVars, poolVars, chatVars, transferVars>>
notFault == <<persistVars, migrateVars, validateVars, syncVars, consVars, scanVars, retryVars, poolVars, chatVars, transferVars>>
notPool == <<persistVars, migrateVars, validateVars, syncVars, consVars, scanVars, retryVars, faultVars, chatVars, transferVars>>
notPersistNorFault == <<migrateVars, validateVars, syncVars, consVars, scanVars, retryVars, poolVars, chatVars, transferVars>>
notChat == <<persistVars, migrateVars, validateVars, syncVars, consVars, scanVars, retryVars, faultVars, poolVars, transferVars>>
notTransfer == <<persistVars, migrateVars, validateVars, syncVars, consVars, scanVars, retryVars, faultVars, poolVars, chatVars>>
vars == <<sqlSM, jsonSM, disk, op, ret, nops, firstReg,
          sm, pc, filepath, retries, fetched, finished,
          conn, seen, outcome, shared,
          live, state_file, at, pending, committed, calls,
          seeded, exported, validation,
          local_tree, remote_tree, store, runs, last,
          folder, quarantine, placed, sweeps, posix, book, last_sweep,
          scan_root, scan_log,
          history, slept,
          medium, run, reported,
          limit, messages, to_yield, started, running_tasks, task, loop,
          chats, chat_items, folders, holder, sm_row, sync_row, dry_runs, chat_errors,
          transfer_file, transfer_call>>

\* ------------------------------------------------------------- utilities
Exists(d, p) == d[p] # 0
\* file_path is None
NoPath == <<0, 0>>
Key(size, hash) == <<size, hash>>
IntVal(n) == <<"i", n>>
Str(n) == <<"s", n>>
GlobalStr == <<"global", 0>>
GlobalPathStr(p) == <<"global:", p>>
\* str(v) of a tagged value: an integer becomes its decimal string
PyStr(v) == IF v[1] = "i" THEN Str(v[2]) ELSE v
NoMatch == [kind |-> "none", id |-> 0, path |-> <<0, 0>>]
Match(kind, id, path) == [kind |-> kind, id |-> id, path |-> path]
Min(S) == CHOOSE x \in S : \A y \in S : x <= y
SeqContains(s, x) == \E i \in 1..Len(s) : s[i] = x
SeqAppendNew(s, x) == IF SeqContains(s, x) THEN s ELSE Append(s, x)

\* ====================================================== state_db.py
EmptyDB ==
    [messages |-> {}, message_status |-> {}, file_hashes |-> {},
     duplicates |-> {}, total_files |-> 0, total_bytes |-> 0,
     last_message_id |-> 0, now |-> 1]

\* INSERT ... ON CONFLICT(chat_id, message_id) DO UPDATE; downloaded_at = now()
add_message(db, m, path, size, hash) ==
    [db EXCEPT
        !.messages = {r \in @ : r.message_id # m} \cup
            {[message_id |-> m, file_path |-> path, file_size |-> size,
              sample_hash |-> hash, downloaded_at |-> db.now]},
        !.now = @ + 1]

db_is_message_downloaded(db, m) == \E r \in db.messages : r.message_id = m

\* UPDATE messages SET file_path = new WHERE file_path = old  (every such row)
db_update_file_path(db, old, new) ==
    [db EXCEPT !.messages =
        {IF r.file_path = old THEN [r EXCEPT !.file_path = new] ELSE r : r \in @}]

db_update_file_path_ret(db, old) == \E r \in db.messages : r.file_path = old

HasHash(db, key) == \E r \in db.file_hashes : r.hash_key = key

register_file_hash_LastWins(db, size, hash, path) ==
    [db EXCEPT !.file_hashes =
        {r \in @ : r.hash_key # Key(size, hash)} \cup
            {[hash_key |-> Key(size, hash), first_occurrence_path |-> path]}]

\* SELECT hash_key ...; if a row: return; else INSERT (one connection, one call)
register_file_hash(db, size, hash, path) ==
    IF HasHash(db, Key(size, hash))
    THEN db
    ELSE [db EXCEPT !.file_hashes =
            @ \cup {[hash_key |-> Key(size, hash), first_occurrence_path |-> path]}]

\* <<>> for None, else <<first_occurrence_path>>
find_duplicate_by_hash(db, size, hash) ==
    LET rows == {r \in db.file_hashes : r.hash_key = Key(size, hash)}
    IN  IF rows = {} THEN <<>> ELSE <<(CHOOSE r \in rows : TRUE).first_occurrence_path>>

\* ... WHERE file_size = ? AND sample_hash = ? ORDER BY message_id LIMIT 1
find_duplicate_in_chat(db, size, hash) ==
    LET rows == {r \in db.messages : r.file_size = size /\ r.sample_hash = hash}
    IN  IF rows = {} THEN <<>>
        ELSE LET first == CHOOSE r \in rows :
                              r.message_id = Min({x.message_id : x \in rows})
             IN  <<first.message_id, first.file_path>>

\* INSERT ... ON CONFLICT(chat_id, duplicate_msg_id) DO NOTHING
db_mark_duplicate(db, dup, canonical) ==
    IF \E r \in db.duplicates : r.duplicate_msg_id = dup
    THEN db
    ELSE [db EXCEPT !.duplicates =
            @ \cup {[duplicate_msg_id |-> dup, canonical_msg_id |-> canonical]}]

\* <<>> for None, else <<canonical_msg_id>>
get_duplicate_info(db, m) ==
    LET rows == {r \in db.duplicates : r.duplicate_msg_id = m}
    IN  IF rows = {} THEN <<>> ELSE <<(CHOOSE r \in rows : TRUE).canonical_msg_id>>

\* INSERT ... ON CONFLICT(chat_id, message_id) DO UPDATE SET status = excluded.status
set_message_status(db, m, status) ==
    [db EXCEPT !.message_status =
        {r \in @ : r.message_id # m} \cup {[message_id |-> m, status |-> status]}]

\* "none" for None
get_message_status(db, m) ==
    LET rows == {r \in db.message_status : r.message_id = m}
    IN  IF rows = {} THEN "none" ELSE (CHOOSE r \in rows : TRUE).status

get_status_count(db, status) ==
    Cardinality({r \in db.message_status : r.status = status})

\* DELETE FROM duplicates / file_hashes / message_status WHERE NOT EXISTS ...
\* (one chat row always exists, so no status row is orphaned)
cleanup_orphaned_records(db) ==
    [db EXCEPT
        !.duplicates = {d \in @ :
            \/ d.canonical_msg_id = IntVal(-1)
            \/ \E r \in db.messages : IntVal(r.message_id) = d.canonical_msg_id},
        !.file_hashes = {h \in @ :
            \E r \in db.messages : r.file_path = h.first_occurrence_path}]

\* DELETE FROM file_hashes; then the first row per key in downloaded_at order
rebuild_hash_index_from_messages(db) ==
    LET rows == {r \in db.messages : r.sample_hash # 0 /\ r.file_size > 0}
        keys == {Key(r.file_size, r.sample_hash) : r \in rows}
        firstOf(k) == CHOOSE r \in rows :
            /\ Key(r.file_size, r.sample_hash) = k
            /\ \A x \in rows : Key(x.file_size, x.sample_hash) = k
                                  => r.downloaded_at <= x.downloaded_at
    IN  [db EXCEPT !.file_hashes =
            {[hash_key |-> k, first_occurrence_path |-> firstOf(k).file_path] : k \in keys}]

\* deduplicate_backups.prune_global_index
prune_global_index(db, d) ==
    [db EXCEPT !.file_hashes = {h \in @ : Exists(d, h.first_occurrence_path)}]

\* ================================================= state_manager.py (JSON)
EmptyState ==
    [downloaded_messages |-> <<>>, skipped_messages |-> <<>>,
     failed_messages |-> <<>>, total_files |-> 0, total_bytes |-> 0,
     last_message_id |-> 0, hash_index |-> <<>>, duplicate_map |-> <<>>]

EmptyGlobal == [hash_index |-> <<>>]

\* state['downloaded_messages'] is a dict in insertion order: a sequence of
\* entries [id, path, size, sample_hash] with distinct ids (id = str(message_id))
DmHas(st, id) == \E i \in 1..Len(st.downloaded_messages) : st.downloaded_messages[i].id = id
DmIndex(st, id) == CHOOSE i \in 1..Len(st.downloaded_messages) : st.downloaded_messages[i].id = id
DmGet(st, id) == st.downloaded_messages[DmIndex(st, id)]
DmPut(st, e) ==
    IF DmHas(st, e.id)
    THEN [st EXCEPT !.downloaded_messages[DmIndex(st, e.id)] = e]
    ELSE [st EXCEPT !.downloaded_messages = Append(@, e)]
DictGet(f, k) == IF k \in DOMAIN f THEN <<f[k]>> ELSE <<>>
DictPut(f, k, v) == IF k \in DOMAIN f THEN [f EXCEPT ![k] = v] ELSE f @@ (k :> v)
DictDel(f, k) == [x \in (DOMAIN f) \ {k} |-> f[x]]

\* StateManager._update_hash_index
update_hash_index(st, size, hash, id) ==
    LET key == Key(size, hash)
        old == IF key \in DOMAIN st.hash_index THEN st.hash_index[key] ELSE <<>>
    IN  [st EXCEPT !.hash_index = DictPut(@, key, SeqAppendNew(old, id))]

\* GlobalStateManager.register_file, JSON branch
global_register_file(g, size, hash, path) ==
    IF Key(size, hash) \in DOMAIN g.hash_index
    THEN g
    ELSE [g EXCEPT !.hash_index = DictPut(@, Key(size, hash), path)]

\* GlobalStateManager.find_duplicate, JSON branch: the value returned ...
global_find_duplicate_ret(g, d, size, hash) ==
    LET found == DictGet(g.hash_index, Key(size, hash))
    IN  IF found # <<>> /\ Exists(d, found[1]) THEN found ELSE <<>>

\* ... and the index after the call: a stale entry is deleted
global_find_duplicate_state(g, d, size, hash) ==
    LET found == DictGet(g.hash_index, Key(size, hash))
    IN  IF found # <<>> /\ ~Exists(d, found[1])
        THEN [g EXCEPT !.hash_index = DictDel(@, Key(size, hash))]
        ELSE g

\* migrate_to_hash_detection.prune_global_index
json_prune_global_index(g, d) ==
    [g EXCEPT !.hash_index =
        [k \in {x \in DOMAIN g.hash_index : Exists(d, g.hash_index[x])} |-> g.hash_index[k]]]

\* StateManager.rebuild_hash_index
RECURSIVE RebuildFrom(_, _, _)
RebuildFrom(st, entries, i) ==
    IF i > Len(entries) THEN st
    ELSE LET e == entries[i]
         IN  RebuildFrom(IF e.sample_hash # 0 /\ e.size > 0
                         THEN update_hash_index(st, e.size, e.sample_hash, e.id)
                         ELSE st,
                         entries, i + 1)
rebuild_hash_index(st) ==
    RebuildFrom([st EXCEPT !.hash_index = <<>>], st.downloaded_messages, 1)

\* ======================================== state_manager.py: StateManager
\* A StateManager: use_db, and db (the database), or state and gstate (the
\* chat's JSON state and GlobalStateManager's JSON state).
NewSM(useDb) ==
    [use_db |-> useDb, db |-> EmptyDB, state |-> EmptyState, gstate |-> EmptyGlobal]

is_message_downloaded(s, m) ==
    IF s.use_db THEN db_is_message_downloaded(s.db, m) ELSE DmHas(s.state, Str(m))

is_message_skipped(s, m) ==
    IF s.use_db THEN get_message_status(s.db, m) = "skipped"
    ELSE SeqContains(s.state.skipped_messages, m)

is_message_failed(s, m) ==
    IF s.use_db THEN get_message_status(s.db, m) = "failed"
    ELSE SeqContains(s.state.failed_messages, m)

\* the first entry, in dict order, whose path is old_path (0 if none)
FirstWithPath(st, old) ==
    LET hits == {i \in 1..Len(st.downloaded_messages) : st.downloaded_messages[i].path = old}
    IN  IF hits = {} THEN 0 ELSE Min(hits)

update_file_path(s, old, new) ==
    IF s.use_db THEN [s EXCEPT !.db = db_update_file_path(@, old, new)]
    ELSE LET i == FirstWithPath(s.state, old)
         IN  IF i = 0 THEN s
             ELSE [s EXCEPT !.state.downloaded_messages[i].path = new]

update_file_path_ret(s, old) ==
    IF s.use_db THEN db_update_file_path_ret(s.db, old)
    ELSE FirstWithPath(s.state, old) # 0

\* the counters after mark_downloaded, SQLite branch: get_chat_stats, then
\* update_chat_stats(total_files = read + 1, total_bytes = read + file_size)
db_count_download(db, m, size) ==
    [db EXCEPT !.total_files = db.total_files + 1,
               !.total_bytes = db.total_bytes + size,
               !.last_message_id = m]

mark_downloaded_sql(db, m, path, size, hash) ==
    LET d1 == set_message_status(add_message(db, m, path, size, hash), m, "downloaded")
        d2 == IF hash # 0 /\ size > 0
              THEN register_file_hash(register_file_hash(d1, size, hash, path),
                                      size, hash, path)
              ELSE d1
    IN  db_count_download(d2, m, size)

\* the counters after mark_downloaded, JSON branch
json_count_download(st, m, size) ==
    IF DmHas(st, Str(m)) THEN st
    ELSE [st EXCEPT !.total_files = @ + 1, !.total_bytes = @ + size]

mark_downloaded_json(s, m, path, size, hash) ==
    LET s1 == DmPut(json_count_download(s.state, m, size),
                    [id |-> Str(m), path |-> path, size |-> size, sample_hash |-> hash])
        idx == hash # 0 /\ size > 0
        s2 == IF idx THEN update_hash_index(s1, size, hash, Str(m)) ELSE s1
    IN  [s EXCEPT !.state = [s2 EXCEPT !.last_message_id = m],
                  !.gstate = IF idx THEN global_register_file(@, size, hash, path) ELSE @]

mark_downloaded(s, m, path, size, hash) ==
    IF s.use_db THEN [s EXCEPT !.db = mark_downloaded_sql(@, m, path, size, hash)]
    ELSE mark_downloaded_json(s, m, path, size, hash)

mark_skipped(s, m) ==
    IF s.use_db
    THEN [s EXCEPT !.db = [set_message_status(@, m, "skipped") EXCEPT !.last_message_id = m]]
    ELSE [s EXCEPT !.state.skipped_messages = SeqAppendNew(@, m),
                   !.state.last_message_id = m]

mark_failed_Nowhere(s, m) == s
mark_failed(s, m) ==
    IF s.use_db
    THEN [s EXCEPT !.db = [set_message_status(@, m, "failed") EXCEPT !.last_message_id = m]]
    ELSE [s EXCEPT !.state.failed_messages = SeqAppendNew(@, m),
                   !.state.last_message_id = m]

get_stats(s) ==
    IF s.use_db
    THEN [downloaded |-> get_status_count(s.db, "downloaded"),
          skipped |-> get_status_count(s.db, "skipped"),
          failed |-> get_status_count(s.db, "failed"),
          total_files |-> s.db.total_files,
          total_bytes |-> s.db.total_bytes,
          last_message_id |-> s.db.last_message_id]
    ELSE [downloaded |-> Len(s.state.downloaded_messages),
          skipped |-> Len(s.state.skipped_messages),
          failed |-> Len(s.state.failed_messages),
          total_files |-> s.state.total_files,
          total_bytes |-> s.state.total_bytes,
          last_message_id |-> s.state.last_message_id]

\* StateManager.find_duplicate, JSON branch: the first id of hash_index[key]
\* whose entry has a path that exists (0 if none)
FirstLocal(st, d, key) ==
    LET ids == IF key \in DOMAIN st.hash_index THEN st.hash_index[key] ELSE <<>>
        ok == {i \in 1..Len(ids) :
                  DmHas(st, ids[i]) /\ Exists(d, DmGet(st, ids[i]).path)}
    IN  IF ok = {} THEN 0 ELSE Min(ok)

find_duplicate_Unchecked(s, d, size, hash) ==
    IF s.use_db
    THEN LET local == find_duplicate_in_chat(s.db, size, hash)
             global == find_duplicate_by_hash(s.db, size, hash)
         IN  IF local # <<>> THEN Match("msg", IntVal(local[1]), local[2])
             ELSE IF global # <<>> THEN Match("global", GlobalStr, global[1])
             ELSE NoMatch
    ELSE LET key == Key(size, hash)
             ids == IF key \in DOMAIN s.state.hash_index THEN s.state.hash_index[key] ELSE <<>>
             global == DictGet(s.gstate.hash_index, key)
         IN  IF ids # <<>> /\ DmHas(s.state, ids[1])
             THEN Match("msg", ids[1], DmGet(s.state, ids[1]).path)
             ELSE IF global # <<>> THEN Match("global", GlobalStr, global[1])
             ELSE NoMatch

\* StateManager.find_duplicate: what it returns: (None, None), (message id,
\* path) of this chat, or ('global', path)
find_duplicate(s, d, size, hash) ==
    IF s.use_db
    THEN LET local == find_duplicate_in_chat(s.db, size, hash)
             global == find_duplicate_by_hash(s.db, size, hash)
         IN  IF local # <<>> /\ Exists(d, local[2])
             THEN Match("msg", IntVal(local[1]), local[2])
             ELSE IF global # <<>> /\ Exists(d, global[1])
             THEN Match("global", GlobalStr, global[1])
             ELSE NoMatch
    ELSE LET i == FirstLocal(s.state, d, Key(size, hash))
             global == global_find_duplicate_ret(s.gstate, d, size, hash)
         IN  IF i # 0
             THEN LET id == s.state.hash_index[Key(size, hash)][i]
                  IN  Match("msg", id, DmGet(s.state, id).path)
             ELSE IF global # <<>> THEN Match("global", GlobalStr, global[1])
             ELSE NoMatch

\* StateManager.find_duplicate: the manager after the call (the JSON branch
\* asks GlobalStateManager.find_duplicate, which drops a stale entry, when
\* this chat has no match)
find_duplicate_state(s, d, size, hash) ==
    IF s.use_db \/ FirstLocal(s.state, d, Key(size, hash)) # 0 THEN s
    ELSE [s EXCEPT !.gstate = global_find_duplicate_state(@, d, size, hash)]

\* GlobalStateManager.register_file of the manager's global_state
register_file(s, size, hash, path) ==
    IF s.use_db THEN [s EXCEPT !.db = register_file_hash(@, size, hash, path)]
    ELSE [s EXCEPT !.gstate = global_register_file(@, size, hash, path)]

\* GlobalStateManager.find_duplicate of the manager's global_state: <<>> or <<path>>
gs_find_duplicate(s, d, size, hash) ==
    IF s.use_db
    THEN LET found == find_duplicate_by_hash(s.db, size, hash)
         IN  IF found # <<>> /\ Exists(d, found[1]) THEN found ELSE <<>>
    ELSE global_find_duplicate_ret(s.gstate, d, size, hash)

gs_find_duplicate_state(s, d, size, hash) ==
    IF s.use_db THEN s
    ELSE [s EXCEPT !.gstate = global_find_duplicate_state(@, d, size, hash)]

\* StateManager.mark_duplicate; canonical is a tagged value
mark_duplicate(s, dup, canonical) ==
    IF s.use_db
    THEN [s EXCEPT !.db = db_mark_duplicate(@, dup,
                            IF canonical = GlobalStr THEN IntVal(-1) ELSE canonical)]
    ELSE [s EXCEPT !.state.duplicate_map = DictPut(@, Str(dup), PyStr(canonical))]

\* StateManager.is_duplicate: <<>> for None, else <<the canonical id, a string>>
is_duplicate(s, m) ==
    IF s.use_db
    THEN LET info == get_duplicate_info(s.db, m)
         IN  IF info = <<>> THEN <<>> ELSE <<PyStr(info[1])>>
    ELSE DictGet(s.state.duplicate_map, Str(m))

\* validate_downloaded_file rejecting a file that misses either limit
validate_downloaded_file_BothLimits(s, d, m) ==
    /\ is_message_downloaded(s, m)
    /\ LET path == IF s.use_db
                   THEN (CHOOSE r \in s.db.messages : r.message_id = m).file_path
                   ELSE DmGet(s.state, Str(m)).path
           expected == IF s.use_db
                       THEN (CHOOSE r \in s.db.messages : r.message_id = m).file_size
                       ELSE DmGet(s.state, Str(m)).size
           actual == SizeOf(d[path])
           diff == IF actual >= expected THEN actual - expected ELSE expected - actual
       IN  /\ path # NoPath
           /\ Exists(d, path)
           /\ actual # 0
           /\ expected > 0 => ~(100 * diff > expected \/ diff > 1024)

\* StateManager.validate_downloaded_file, with the sizes in bytes
validate_downloaded_file(s, d, m) ==
    /\ is_message_downloaded(s, m)
    /\ LET path == IF s.use_db
                   THEN (CHOOSE r \in s.db.messages : r.message_id = m).file_path
                   ELSE DmGet(s.state, Str(m)).path
           expected == IF s.use_db
                       THEN (CHOOSE r \in s.db.messages : r.message_id = m).file_size
                       ELSE DmGet(s.state, Str(m)).size
           actual == SizeOf(d[path])
           diff == IF actual >= expected THEN actual - expected ELSE expected - actual
       IN  /\ path # NoPath
           /\ Exists(d, path)
           /\ actual # 0
           /\ expected > 0 => ~(100 * diff > expected /\ diff > 1024)

\* =========================================================== rest states
Backends == {"sql", "json"}
Keys == {Key(SizeOf(c), c) : c \in Contents}
Call(name, m, path, key, arg) == [name |-> name, m |-> m, path |-> path, key |-> key, arg |-> arg]
NoCall == Call("none", 0, <<0, 0>>, <<0, 0>>, <<"none", 0>>)
Both(a, b) == [sql |-> a, json |-> b]

StoreIdle ==
    /\ sqlSM = NewSM(TRUE)
    /\ jsonSM = NewSM(FALSE)
    /\ op = NoCall
    /\ ret = Both(<<>>, <<>>)
    /\ nops = 0
    /\ firstReg = [b \in Backends |-> [k \in Keys |-> <<>>]]

DownloaderIdle ==
    /\ sm = NewSM(TRUE)
    /\ pc = [m \in Msgs |-> "none"]
    /\ filepath = [m \in Msgs |-> <<0, 0>>]
    /\ retries = [m \in Msgs |-> 0]
    /\ fetched = [m \in Msgs |-> 0]
    /\ finished = <<>>

NoJob == [job |-> "none", at |-> "idle", m |-> 0, path |-> <<0, 0>>, key |-> <<0, 0>>]
NothingSeen == [row |-> FALSE, total_files |-> 0, total_bytes |-> 0]

WritersIdle ==
    /\ conn = [w \in Writers |-> NoJob]
    /\ seen = [w \in Writers |-> NothingSeen]
    /\ outcome = [w \in Writers |-> "none"]
    /\ shared = EmptyDB

NoFile == [kind |-> "absent", text |-> EmptyState]
NoRecord == [id |-> 0, path |-> <<0, 0>>, size |-> 0, sample_hash |-> 0]

PersistIdle ==
    /\ live = NewSM(TRUE)
    /\ state_file = NoFile
    /\ at = "idle"
    /\ pending = NoRecord
    /\ committed = [m \in Msgs |-> NoRecord]
    /\ calls = 0

MigrateIdle ==
    /\ seeded = <<>>
    /\ exported = <<>>

NoValidation == [m |-> 0, valid |-> FALSE]

ValidateIdle == validation = NoValidation

NoRun == [before |-> EmptyDB, local |-> <<>>, remote |-> <<>>]

SyncIdle ==
    /\ local_tree = <<>>
    /\ remote_tree = <<>>
    /\ store = EmptyDB
    /\ runs = 0
    /\ last = NoRun

\* no file, and a tree nothing has been put into yet
NoFileAt == [id |-> 0, content |-> 0]

NoSweep ==
    [tool |-> "none", order |-> <<>>, groups |-> {}, kept |-> {}, moved |-> {},
     folder |-> [n \in Names |-> NoFileAt], book |-> NewSM(TRUE)]

ConsolidateIdle ==
    /\ folder = [n \in Names |-> NoFileAt]
    /\ quarantine = [n \in Names |-> NoFileAt]
    /\ placed = {}
    /\ sweeps = 0
    /\ posix = TRUE
    /\ book = NewSM(TRUE)
    /\ last_sweep = NoSweep

\* The directories under the scanned root and the file names in them, each
\* list in the order Python compares the strings; a path is the pair of
\* its directory's and its name's position.  The quarantine folder is
\* "duplicates"; a name that starts with a dot is hidden, and the tree has
\* a hidden name in its first directory only.
ScanDirs == <<"chat", "duplicates", "old_duplicates">>
ScanNames == <<".a", "b">>
Hidden(p) == p[2] = 1
Quarantined(p) == ScanDirs[p[1]] = "duplicates"
ScanPaths == {p \in (DOMAIN ScanDirs) \X (DOMAIN ScanNames) : Hidden(p) => p[1] = 1}
NoEntry == [kind |-> "none", content |-> 0]
ScanIdle ==
    /\ scan_root = [p \in ScanPaths |-> NoEntry]
    /\ scan_log = <<>>

RetryIdle ==
    /\ history = [m \in Msgs |-> <<>>]
    /\ slept = [m \in Msgs |-> <<>>]

Sound == [db_ok |-> TRUE, write_ok |-> TRUE]
NoRunYet == [phase |-> "none", wanted_db |-> TRUE, met_error |-> FALSE, write_failed |-> FALSE]
FaultIdle ==
    /\ medium = Sound
    /\ run = NoRunYet
    /\ reported = {}

Items == 1..MaxItems
PoolIdle ==
    /\ limit = 1
    /\ messages = <<>>
    /\ to_yield = <<>>
    /\ started = <<>>
    /\ running_tasks = {}
    /\ task = [m \in Items |-> "none"]
    /\ loop = "returned"

\* chat names are sequences of characters; the chats of the model
Titles == {<<"a">>, <<"b", ":", "c">>, <<"c">>}
UnnamedChat == <<"unnamed_chat">>
RECURSIVE Strip(_)
\* str.strip('. ')
Strip(s) ==
    IF s = <<>> THEN s
    ELSE IF Head(s) \in {".", " "} THEN Strip(Tail(s))
    ELSE IF s[Len(s)] \in {".", " "} THEN Strip(SubSeq(s, 1, Len(s) - 1))
    ELSE s
\* utils.sanitize_dirname
sanitize_dirname(dirname) ==
    IF dirname = <<>> THEN UnnamedChat
    ELSE LET replaced == [i \in DOMAIN dirname |->
                            IF dirname[i] \in {"<", ">", ":", "\"", "/", "\\", "|", "?", "*"}
                            THEN "_" ELSE dirname[i]]
             stripped == Strip(replaced)
             cut == SubSeq(stripped, 1, Min({Len(stripped), 100}))
         IN  IF cut = <<>> THEN UnnamedChat ELSE cut
\* StateManager._sanitize_for_filename: the first 8 hex digits of the md5 of
\* the name, kept as the name it is the digest of; a digest is taken to
\* differ from every directory name
sanitize_for_filename(name) == [kind |-> "md5", of |-> name]
DirnameHash(name) == [kind |-> "text", of |-> sanitize_dirname(name)]
ChatNames == Titles \cup {sanitize_dirname(t) : t \in Titles}
ChatIdle ==
    /\ chats = {}
    /\ chat_items = {}
    /\ folders = {}
    /\ holder = [t \in Titles |-> {}]
    /\ sm_row = [t \in Titles |-> 0]
    /\ sync_row = [n \in ChatNames |-> 0]
    /\ dry_runs = 0
    /\ chat_errors = {}

\* TransferState._load_state without a file (last_transfer_at is left out;
\* 0 stands for None)
NewTransferState ==
    [cumulative_bytes_since_transfer |-> 0, last_transfer_mode |-> "None",
     last_transfer_bytes |-> 0]
NoTransferCall ==
    [count |-> 0, threshold |-> 0, remote_path |-> FALSE, available |-> FALSE,
     action |-> "None", completes |-> FALSE, before |-> NewTransferState]
TransferIdle ==
    /\ transfer_file = NewTransferState
    /\ transfer_call = NoTransferCall

ToolsIdle == PersistIdle /\ MigrateIdle /\ ValidateIdle /\ SyncIdle /\ ConsolidateIdle /\ ScanIdle /\ RetryIdle /\ FaultIdle /\ PoolIdle /\ ChatIdle /\ TransferIdle

\* every file name of the directory holds a file; no name_n variant exists
FullDisk(d) ==
    /\ d \in [Paths -> 0..MaxContent]
    /\ \A p \in Paths : (d[p] # 0) = (p \in BasePaths)

\* ============================== the store's operations, on both backends
\* One step applies one call to both managers, as a caller that does not
\* know the backend would; op and ret record the call and its two results.
Apply(call, s1, s2, r1, r2) ==
    /\ nops < MaxOps
    /\ nops' = nops + 1
    /\ op' = call
    /\ sqlSM' = s1
    /\ jsonSM' = s2
    /\ ret' = Both(r1, r2)

MarkDownloaded(m, path, c) ==
    /\ Apply(Call("mark_downloaded", m, path, Key(SizeOf(c), c), <<"none", 0>>),
             mark_downloaded(sqlSM, m, path, SizeOf(c), c),
             mark_downloaded(jsonSM, m, path, SizeOf(c), c), <<>>, <<>>)
    /\ UNCHANGED <<disk, firstReg, dlVars, connVars, toolVars>>

MarkSkipped(m) ==
    /\ Apply(Call("mark_skipped", m, <<0, 0>>, <<0, 0>>, <<"none", 0>>),
             mark_skipped(sqlSM, m), mark_skipped(jsonSM, m), <<>>, <<>>)
    /\ UNCHANGED <<disk, firstReg, dlVars, connVars, toolVars>>

MarkFailed(m) ==
    /\ Apply(Call("mark_failed", m, <<0, 0>>, <<0, 0>>, <<"none", 0>>),
             mark_failed(sqlSM, m), mark_failed(jsonSM, m), <<>>, <<>>)
    /\ UNCHANGED <<disk, firstReg, dlVars, connVars, toolVars>>

MarkDuplicate(m, canonical) ==
    /\ Apply(Call("mark_duplicate", m, <<0, 0>>, <<0, 0>>, canonical),
             mark_duplicate(sqlSM, m, canonical),
             mark_duplicate(jsonSM, m, canonical), <<>>, <<>>)
    /\ UNCHANGED <<disk, firstReg, dlVars, connVars, toolVars>>

\* the caller has renamed the file (utils.fix_extensions_in_directory)
UpdateFilePath(old, new) ==
    /\ old # new
    /\ Exists(disk, old) /\ ~Exists(disk, new)
    /\ disk' = [disk EXCEPT ![new] = disk[old], ![old] = 0]
    /\ Apply(Call("update_file_path", 0, old, <<0, 0>>, <<"none", 0>>),
             update_file_path(sqlSM, old, new), update_file_path(jsonSM, old, new),
             update_file_path_ret(sqlSM, old), update_file_path_ret(jsonSM, old))
    /\ UNCHANGED <<firstReg, dlVars, connVars, toolVars>>

CanonicalArgs == {IntVal(m) : m \in Msgs} \cup {GlobalStr}

InitStore ==
    /\ StoreIdle /\ DownloaderIdle /\ WritersIdle /\ ToolsIdle
    /\ FullDisk(disk)

NextStore ==
    \/ \E m \in Msgs, p \in Paths, c \in Contents : MarkDownloaded(m, p, c)
    \/ \E m \in Msgs : MarkSkipped(m)
    \/ \E m \in Msgs : MarkFailed(m)
    \/ \E m \in Msgs, canonical \in CanonicalArgs : MarkDuplicate(m, canonical)
    \/ \E old \in Paths, new \in Paths : UpdateFilePath(old, new)

SpecStore == InitStore /\ [][NextStore]_vars

\* ------------------------------------------------------------- C6
\* C6: total_files and total_bytes increase only when an item is recorded for
\* the first time; mark_downloaded of an item that already has a record
\* leaves both counters as they were, in the SQLite and in the JSON backend.
CountersOf(s) == <<get_stats(s).total_files, get_stats(s).total_bytes>>
C6_CountersOnlyOnFirstInsert ==
    [][\A m \in Msgs :
          (op'.name = "mark_downloaded" /\ op'.m = m /\ nops' = nops + 1) =>
              /\ is_message_downloaded(sqlSM, m) => CountersOf(sqlSM') = CountersOf(sqlSM)
              /\ is_message_downloaded(jsonSM, m) => CountersOf(jsonSM') = CountersOf(jsonSM)
      ]_vars

\* ------------------------------------------------------------- C8
\* C8: after every sequence of mark_downloaded, mark_skipped, mark_failed,
\* mark_duplicate and update_file_path applied to both backends from the
\* empty state, every query gives the same answer on both.
Answers(s, d) ==
    [downloaded |-> {m \in Msgs : is_message_downloaded(s, m)},
     skipped |-> {m \in Msgs : is_message_skipped(s, m)},
     failed |-> {m \in Msgs : is_message_failed(s, m)},
     duplicate |-> [m \in Msgs |-> is_duplicate(s, m)],
     find |-> [k \in Keys |->
                 LET r == find_duplicate(s, d, k[1], k[2])
                 IN  [kind |-> r.kind,
                      id |-> IF r.kind = "none" THEN r.id ELSE PyStr(r.id),
                      path |-> r.path]],
     stats |-> get_stats(s)]
C8_BackendsAnswerAlike == Answers(sqlSM, disk) = Answers(jsonSM, disk)

\* ------------------------------------------------------------- C9
\* C9: after a status write for an item (mark_downloaded, mark_skipped,
\* mark_failed) the item is reported in exactly one status, the one just
\* written, by both backends.
StatusesReported(s, m) ==
    {x \in {"downloaded", "skipped", "failed"} :
        \/ x = "skipped" /\ is_message_skipped(s, m)
        \/ x = "failed" /\ is_message_failed(s, m)
        \/ x = "downloaded" /\
              IF s.use_db THEN get_message_status(s.db, m) = "downloaded"
              ELSE is_message_downloaded(s, m)}
StatusWritten ==
    IF op.name = "mark_downloaded" THEN "downloaded"
    ELSE IF op.name = "mark_skipped" THEN "skipped"
    ELSE IF op.name = "mark_failed" THEN "failed"
    ELSE "none"
C9_OneStatusLastWriteWins ==
    StatusWritten # "none" =>
        /\ StatusesReported(sqlSM, op.m) = {StatusWritten}
        /\ StatusesReported(jsonSM, op.m) = {StatusWritten}

\* ------------------------------------------------------------- C10
\* C10: mark_duplicate of an item that is already linked changes nothing:
\* is_duplicate returns the first canonical afterwards, in both backends.
C10_SecondLinkIsNoOp ==
    [][\A m \in Msgs :
          (op'.name = "mark_duplicate" /\ op'.m = m /\ nops' = nops + 1) =>
              /\ is_duplicate(sqlSM, m) # <<>> => is_duplicate(sqlSM', m) = is_duplicate(sqlSM, m)
              /\ is_duplicate(jsonSM, m) # <<>> => is_duplicate(jsonSM', m) = is_duplicate(jsonSM, m)
      ]_vars

\* ===================================== the global hash index, both backends
\* the entry of the hash index for a key: <<>> or <<path>>
IndexEntry(s, k) ==
    IF s.use_db THEN find_duplicate_by_hash(s.db, k[1], k[2])
    ELSE DictGet(s.gstate.hash_index, k)

KeyOfFile(d, p) == Key(SizeOf(d[p]), d[p])

\* the paths registered for a key since the key last had no entry
Registered(log, s, k, p) == IF IndexEntry(s, k) = <<>> THEN <<p>> ELSE Append(log, p)
StillRegistered(log, s, k) == IF IndexEntry(s, k) = <<>> THEN <<>> ELSE log

\* GlobalStateManager.register_file(size, hash, path) for a file of the disk
Register(p) ==
    /\ Exists(disk, p)
    /\ LET k == KeyOfFile(disk, p)
       IN  /\ Apply(Call("register_file", 0, p, k, <<"none", 0>>),
                    register_file(sqlSM, k[1], k[2], p),
                    register_file(jsonSM, k[1], k[2], p), <<>>, <<>>)
           /\ firstReg' = [firstReg EXCEPT
                              !.sql[k] = Registered(@, sqlSM, k, p),
                              !.json[k] = Registered(@, jsonSM, k, p)]
    /\ UNCHANGED <<disk, dlVars, connVars, toolVars>>

\* GlobalStateManager.find_duplicate(size, hash)
GsFindDuplicate(k) ==
    /\ Apply(Call("gs_find_duplicate", 0, <<0, 0>>, k, <<"none", 0>>),
             gs_find_duplicate_state(sqlSM, disk, k[1], k[2]),
             gs_find_duplicate_state(jsonSM, disk, k[1], k[2]),
             gs_find_duplicate(sqlSM, disk, k[1], k[2]),
             gs_find_duplicate(jsonSM, disk, k[1], k[2]))
    /\ firstReg' = [firstReg EXCEPT
                       !.sql[k] = StillRegistered(@, sqlSM', k),
                       !.json[k] = StillRegistered(@, jsonSM', k)]
    /\ UNCHANGED <<disk, dlVars, connVars, toolVars>>

\* a file of the backup directory is deleted or moved away by the user
FileRemoved(p) ==
    /\ Exists(disk, p)
    /\ nops < MaxOps
    /\ nops' = nops + 1
    /\ disk' = [disk EXCEPT ![p] = 0]
    /\ op' = Call("file_removed", 0, p, <<0, 0>>, <<"none", 0>>)
    /\ ret' = Both(<<>>, <<>>)
    /\ UNCHANGED <<sqlSM, jsonSM, firstReg, dlVars, connVars, toolVars>>

NextRegister ==
    \/ \E p \in BasePaths : Register(p)
    \/ \E k \in Keys : GsFindDuplicate(k)
    \/ \E p \in BasePaths : FileRemoved(p)

SpecRegister == InitStore /\ [][NextRegister]_vars

\* ------------------------------------------------------------- C2
\* C2: when the same (size, fingerprint) key is registered again with another
\* path, the index entry stays the path registered first, the second register
\* changes nothing, and a lookup returns the first path (while that file
\* exists); in the SQLite and in the JSON backend.
FirstWins(s, log, k) ==
    log # <<>> =>
        /\ IndexEntry(s, k) = <<Head(log)>>
        /\ (op.name = "gs_find_duplicate" /\ op.key = k) =>
              ret[IF s.use_db THEN "sql" ELSE "json"] =
                  IF Exists(disk, Head(log)) THEN <<Head(log)>> ELSE <<>>
C2_FirstRegistrationWins ==
    \A k \in Keys : /\ FirstWins(sqlSM, firstReg.sql[k], k)
                    /\ FirstWins(jsonSM, firstReg.json[k], k)

\* a key registered twice with different paths, then looked up: both backends
\* return the first path
C2_Witness ==
    \E k \in Keys :
        /\ op.name = "gs_find_duplicate" /\ op.key = k
        /\ \A b \in Backends :
              /\ Len(firstReg[b][k]) >= 2
              /\ firstReg[b][k][1] # firstReg[b][k][2]
              /\ ret[b] = <<firstReg[b][k][1]>>

\* ============================ lookups and maintenance of the hash index
\* StateManager.find_duplicate(file_size, sample_hash)
FindDuplicate(k) ==
    /\ Apply(Call("find_duplicate", 0, <<0, 0>>, k, <<"none", 0>>),
             find_duplicate_state(sqlSM, disk, k[1], k[2]),
             find_duplicate_state(jsonSM, disk, k[1], k[2]),
             find_duplicate(sqlSM, disk, k[1], k[2]),
             find_duplicate(jsonSM, disk, k[1], k[2]))
    /\ UNCHANGED <<disk, firstReg, dlVars, connVars, toolVars>>

\* sync_state / deduplicate_backups: rebuild_hash_index_from_messages;
\* migrate_to_hash_detection: StateManager.rebuild_hash_index
Rebuild ==
    /\ Apply(Call("rebuild", 0, <<0, 0>>, <<0, 0>>, <<"none", 0>>),
             [sqlSM EXCEPT !.db = rebuild_hash_index_from_messages(@)],
             [jsonSM EXCEPT !.state = rebuild_hash_index(@)], <<>>, <<>>)
    /\ UNCHANGED <<disk, firstReg, dlVars, connVars, toolVars>>

\* DatabaseManager.cleanup_orphaned_records (the JSON backend has none)
Cleanup ==
    /\ Apply(Call("cleanup", 0, <<0, 0>>, <<0, 0>>, <<"none", 0>>),
             [sqlSM EXCEPT !.db = cleanup_orphaned_records(@)], jsonSM, <<>>, <<>>)
    /\ UNCHANGED <<disk, firstReg, dlVars, connVars, toolVars>>

\* prune_global_index of deduplicate_backups and of migrate_to_hash_detection
Prune ==
    /\ Apply(Call("prune", 0, <<0, 0>>, <<0, 0>>, <<"none", 0>>),
             [sqlSM EXCEPT !.db = prune_global_index(@, disk)],
             [jsonSM EXCEPT !.gstate = json_prune_global_index(@, disk)], <<>>, <<>>)
    /\ UNCHANGED <<disk, firstReg, dlVars, connVars, toolVars>>

\* mark_downloaded for a file of the disk, with its size and sample hash
RecordDownload(m, p) == Exists(disk, p) /\ MarkDownloaded(m, p, disk[p])

NextIndex ==
    \/ \E m \in Msgs, p \in BasePaths : RecordDownload(m, p)
    \/ \E p \in BasePaths : Register(p)
    \/ \E k \in Keys : FindDuplicate(k)
    \/ \E k \in Keys : GsFindDuplicate(k)
    \/ \E p \in BasePaths : FileRemoved(p)
    \/ Rebuild
    \/ Cleanup
    \/ Prune

SpecIndex == InitStore /\ [][NextIndex]_vars

\* ------------------------------------------------------------- C3
\* C3: a lookup (StateManager.find_duplicate, GlobalStateManager.find_duplicate)
\* returns either no match or a path that exists on disk at the time of the
\* call; an entry whose file is gone is never returned.
C3_LookupReturnsExistingPath ==
    /\ op.name = "find_duplicate" =>
          \A b \in Backends : ret[b].kind # "none" => Exists(disk, ret[b].path)
    /\ op.name = "gs_find_duplicate" =>
          \A b \in Backends : ret[b] # <<>> => Exists(disk, ret[b][1])

\* both lookups have answered "no match" for a key whose entry points at a
\* removed file, and have answered with an existing path for another call
C3_Witness ==
    /\ op.name \in {"find_duplicate", "gs_find_duplicate"}
    /\ IndexEntry(sqlSM, op.key) # <<>>
    /\ ~Exists(disk, IndexEntry(sqlSM, op.key)[1])
    /\ ret.sql = IF op.name = "find_duplicate" THEN NoMatch ELSE <<>>
    /\ ret.json = ret.sql

C3_WitnessMatch ==
    /\ op.name = "find_duplicate"
    /\ \A b \in Backends : ret[b].kind # "none" /\ Exists(disk, ret[b].path)

\* ------------------------------------------------------------- C4
\* C4: under every store operation the hash index holds at most one entry
\* per key, and an entry changes or disappears only when the path it holds
\* no longer exists on disk.
OneEntryPerKey(s) ==
    s.use_db => \A k \in Keys :
        Cardinality({r \in s.db.file_hashes : r.hash_key = k}) <= 1
EntryKept(s, t, d) ==
    \A k \in Keys :
        (IndexEntry(s, k) # <<>> /\ IndexEntry(t, k) # IndexEntry(s, k)) =>
            ~Exists(d, IndexEntry(s, k)[1])
C4_EntryImmutableUntilFileGone ==
    [][/\ OneEntryPerKey(sqlSM') /\ OneEntryPerKey(jsonSM')
       /\ EntryKept(sqlSM, sqlSM', disk')
       /\ EntryKept(jsonSM, jsonSM', disk')]_vars

\* ================== writers, each with its own connection to one database
\* DatabaseManager keeps one sqlite3 connection per thread (and a second
\* process has its own); every get_cursor(commit=True) block is one
\* transaction, a SELECT outside it reads the committed database. conn[w] is
\* the call writer w is in and where, seen[w] what its last SELECT returned.
\* register_file_hash(size, hash, path) is called
BeginRegister(w, p, c) ==
    /\ conn[w].at = "idle"
    /\ conn' = [conn EXCEPT ![w] = [job |-> "register", at |-> "select", m |-> 0,
                                     path |-> p, key |-> Key(SizeOf(c), c)]]
    /\ UNCHANGED <<seen, outcome, shared, disk, storeVars, dlVars, toolVars>>

\* StateManager.mark_downloaded, DB branch, for an item not recorded yet:
\* add_message and set_message_status, each committed
BeginMarkDownloaded(w, m, p, c) ==
    /\ conn[w].at = "idle"
    /\ ~db_is_message_downloaded(shared, m)
    /\ shared' = set_message_status(add_message(shared, m, p, SizeOf(c), c), m, "downloaded")
    /\ conn' = [conn EXCEPT ![w] = [job |-> "mark_downloaded", at |-> "select", m |-> m,
                                     path |-> p, key |-> Key(SizeOf(c), c)]]
    /\ UNCHANGED <<seen, outcome, disk, storeVars, dlVars, toolVars>>

\* register_file_hash: SELECT hash_key FROM file_hashes WHERE hash_key = ?
Select(w) ==
    /\ conn[w].at = "select"
    /\ seen' = [seen EXCEPT ![w].row = HasHash(shared, conn[w].key)]
    /\ conn' = [conn EXCEPT ![w].at = "insert"]
    /\ UNCHANGED <<outcome, shared, disk, storeVars, dlVars, toolVars>>

\* register_file_hash: return if a row was seen, else INSERT and commit; the
\* INSERT of a hash_key (PRIMARY KEY) another connection has committed since
\* raises sqlite3.IntegrityError, which get_cursor re-raises after rollback.
\* mark_downloaded catches it and returns; otherwise it goes on to
\* global_state.register_file (whose SELECT finds the row) and the stats.
Insert(w) ==
    /\ conn[w].at = "insert"
    /\ LET raised == ~seen[w].row /\ HasHash(shared, conn[w].key)
           result == IF seen[w].row THEN "noop"
                     ELSE IF raised THEN "IntegrityError" ELSE "inserted"
       IN  /\ shared' = IF result = "inserted"
                        THEN [shared EXCEPT !.file_hashes = @ \cup
                                {[hash_key |-> conn[w].key,
                                  first_occurrence_path |-> conn[w].path]}]
                        ELSE shared
           /\ outcome' = [outcome EXCEPT ![w] = result]
           /\ conn' = [conn EXCEPT ![w].at =
                          IF conn[w].job = "register" \/ raised THEN "done" ELSE "read"]
    /\ UNCHANGED <<seen, disk, storeVars, dlVars, toolVars>>

\* mark_downloaded: stats = self.db.get_chat_stats(self.chat_id)
ReadStats(w) ==
    /\ conn[w].at = "read"
    /\ seen' = [seen EXCEPT ![w].total_files = shared.total_files,
                            ![w].total_bytes = shared.total_bytes]
    /\ conn' = [conn EXCEPT ![w].at = "write"]
    /\ UNCHANGED <<outcome, shared, disk, storeVars, dlVars, toolVars>>

\* mark_downloaded: update_chat_stats(total_files = stats + 1, ...), committed
WriteStats(w) ==
    /\ conn[w].at = "write"
    /\ shared' = [shared EXCEPT
                     !.total_files = seen[w].total_files + 1,
                     !.total_bytes = seen[w].total_bytes + conn[w].key[1],
                     !.last_message_id = conn[w].m]
    /\ conn' = [conn EXCEPT ![w].at = "done"]
    /\ UNCHANGED <<seen, outcome, disk, storeVars, dlVars, toolVars>>

NextConn ==
    \/ \E w \in Writers, p \in BasePaths, c \in Contents : BeginRegister(w, p, c)
    \/ \E w \in Writers, m \in Msgs, p \in BasePaths, c \in Contents :
          BeginMarkDownloaded(w, m, p, c)
    \/ \E w \in Writers : Select(w)
    \/ \E w \in Writers : Insert(w)
    \/ \E w \in Writers : ReadStats(w)
    \/ \E w \in Writers : WriteStats(w)

SpecConn == InitStore /\ [][NextConn]_vars

\* ------------------------------------------------------------- C5
\* C5: two writers, each on its own connection, register the same key at the
\* same time: in every interleaving one entry results, it holds the path of
\* the writer that committed first, and every other register call ends as a
\* no-op, none of them fails.
C5_ConcurrentRegisterIsAtomic ==
    \A w \in Writers :
        (conn[w].job = "register" /\ conn[w].at = "done") =>
            /\ outcome[w] \in {"inserted", "noop"}
            /\ Cardinality({r \in shared.file_hashes : r.hash_key = conn[w].key}) = 1
            /\ outcome[w] = "inserted" =>
                  [hash_key |-> conn[w].key, first_occurrence_path |-> conn[w].path]
                      \in shared.file_hashes

\* ------------------------------------------------------------- C7
\* C7: when the writers that record downloads of distinct new items have all
\* finished, none of them with an error, total_files is the number of
\* recorded items and total_bytes the sum of their sizes, whatever the
\* interleaving of their read-stats and write-stats steps was.
RECURSIVE SumSizes(_)
SumSizes(rows) ==
    IF rows = {} THEN 0
    ELSE LET r == CHOOSE x \in rows : TRUE IN r.file_size + SumSizes(rows \ {r})
C7_NoLostIncrement ==
    (\A w \in Writers : conn[w].at \in {"idle", "done"} /\ outcome[w] # "IntegrityError") =>
        /\ shared.total_files = Cardinality(shared.messages)
        /\ shared.total_bytes = SumSizes(shared.messages)

\* ============================ downloader.py: the concurrent download tasks
\* StateManager.is_resuming
is_resuming(s) ==
    IF s.use_db THEN s.db.total_files > 0 \/ s.db.last_message_id # 0
    ELSE Len(s.state.downloaded_messages) > 0 \/ s.state.last_message_id # 0

\* _init_and_validate_state on a resume: the JSON backend drops the entries
\* whose file is missing or corrupted (duplicates excepted) and rebuilds an
\* empty hash index; the SQLite backend keeps its rows as they are
init_and_validate_state(s, d) ==
    IF s.use_db \/ ~is_resuming(s) THEN s
    ELSE LET Keep(e) == \/ is_duplicate(s, e.id[2]) # <<>>
                        \/ validate_downloaded_file(s, d, e.id[2])
             s1 == [s EXCEPT !.state.downloaded_messages = SelectSeq(@, Keep)]
         IN  IF DOMAIN s1.state.hash_index = {}
             THEN [s1 EXCEPT !.state = rebuild_hash_index(@)]
             ELSE s1

\* the store an earlier run left: empty, or the record of one download
EarlierRuns(useDb) ==
    {NewSM(useDb)} \cup
    {mark_downloaded(NewSM(useDb), m, p, SizeOf(c), c) :
        m \in Msgs, p \in BasePaths, c \in Contents}

\* utils.get_unique_filepath: the base path, else the first free name_n
\* (<<name, MaxSuffix + 1>> when every modelled variant is taken)
get_unique_filepath(d, n) ==
    LET free == {i \in 0..MaxSuffix : ~Exists(d, <<n, i>>)}
    IN  IF free = {} THEN <<n, MaxSuffix + 1>> ELSE <<n, Min(free)>>

\* _download_media, "file exists on disk but not tracked": the DB branch
\* calls mark_downloaded, the JSON branch writes the entry and the chat's
\* hash index itself
AdoptExistingFile(s, d, m, path) ==
    IF s.use_db THEN mark_downloaded(s, m, path, SizeOf(d[path]), d[path])
    ELSE [s EXCEPT !.state = update_hash_index(
            DmPut(@, [id |-> Str(m), path |-> path, size |-> SizeOf(d[path]),
                      sample_hash |-> d[path]]),
            SizeOf(d[path]), d[path], Str(m))]

\* process_single_message and _download_media up to the download_media call
\* of a message whose file name is n: no await, so one step
Start(t, n) ==
    /\ pc[t] = "ready"
    /\ LET intended == <<n, 0>>
           valid == validate_downloaded_file(sm, disk, t)
           skip == valid \/ is_message_skipped(sm, t) \/ is_duplicate(sm, t) # <<>>
           untracked == Exists(disk, intended) /\ ~valid
           unique == get_unique_filepath(disk, n)
       IN  IF skip
           THEN /\ pc' = [pc EXCEPT ![t] = "skipped"]
                /\ UNCHANGED <<sm, filepath>>
           ELSE IF untracked
           THEN /\ pc' = [pc EXCEPT ![t] = "adopted"]
                /\ sm' = AdoptExistingFile(sm, disk, t, intended)
                /\ UNCHANGED filepath
           ELSE /\ unique \in Paths
                /\ pc' = [pc EXCEPT ![t] = "downloading"]
                /\ filepath' = [filepath EXCEPT ![t] = unique]
                /\ UNCHANGED sm
    /\ UNCHANGED <<disk, retries, fetched, finished, storeVars, connVars, toolVars>>

\* await client.download_media(message.media, file=filepath) has written the
\* file, of content c
Download(t, c) ==
    /\ pc[t] = "downloading"
    /\ disk' = [disk EXCEPT ![filepath[t]] = c]
    /\ fetched' = [fetched EXCEPT ![t] = c]
    /\ pc' = [pc EXCEPT ![t] = "downloaded"]
    /\ UNCHANGED <<sm, filepath, retries, finished, storeVars, connVars, toolVars>>

\* the argument _download_media passes to mark_duplicate
CanonicalOf(r) == IF r.kind = "global" THEN GlobalPathStr(r.path) ELSE r.id

\* config.MAX_RETRIES, config.RETRY_DELAY (seconds)
MAX_RETRIES == 3
RETRY_DELAY == 2

\* What _download_media does from the return of download_media to the end of
\* the critical section, as a function of the store s, the disk d, the
\* message t, the downloaded path and the retries so far.  A result that is
\* missing or empty is removed and retried after wait seconds, and marked
\* failed after MAX_RETRIES.
\* Otherwise, under the lock: find_duplicate on the downloaded file; for a
\* match whose file exists, os.remove(result) and mark_duplicate; else
\* mark_downloaded.
after_download_KeepsFile(s, d, t, result, tries) ==
    LET actual_size == IF Exists(d, result) THEN SizeOf(d[result]) ELSE 0
        sample_hash == d[result]
    IN  IF actual_size = 0
        THEN IF tries + 1 >= MAX_RETRIES
             THEN [sm |-> mark_failed(s, t), disk |-> d, pc |-> "failed",
                   retries |-> tries + 1, wait |-> 0]
             ELSE [sm |-> s, disk |-> d, pc |-> "downloading",
                   retries |-> tries + 1, wait |-> RETRY_DELAY * (2 ^ tries)]
        ELSE [sm |-> mark_downloaded(s, t, result, actual_size, sample_hash),
              disk |-> d, pc |-> "done", retries |-> tries, wait |-> 0]
after_download(s, d, t, result, tries) ==
    LET actual_size == IF Exists(d, result) THEN SizeOf(d[result]) ELSE 0
        sample_hash == d[result]
        r == find_duplicate(s, d, actual_size, sample_hash)
        s1 == find_duplicate_state(s, d, actual_size, sample_hash)
        removed == [d EXCEPT ![result] = 0]
    IN  IF actual_size = 0
        THEN IF tries + 1 >= MAX_RETRIES
             THEN [sm |-> mark_failed(s, t), disk |-> removed, pc |-> "failed",
                   retries |-> tries + 1, wait |-> 0]
             ELSE [sm |-> s, disk |-> removed, pc |-> "downloading",
                   retries |-> tries + 1, wait |-> RETRY_DELAY * (2 ^ tries)]
        ELSE IF r.kind # "none" /\ Exists(d, r.path)
             THEN [sm |-> mark_duplicate(s1, t, CanonicalOf(r)),
                   disk |-> removed, pc |-> "done", retries |-> tries, wait |-> 0]
             ELSE [sm |-> mark_downloaded(s1, t, result, actual_size, sample_hash),
                   disk |-> d, pc |-> "done", retries |-> tries, wait |-> 0]

\* The task resumes from download_media and runs, without an await, up to
\* the end of the critical section (the lock is only ever held between two
\* awaits, so acquiring it never suspends).
Resume(t) ==
    /\ pc[t] = "downloaded"
    /\ LET o == after_download(sm, disk, t, filepath[t], retries[t])
       IN  /\ sm' = o.sm
           /\ disk' = o.disk
           /\ pc' = [pc EXCEPT ![t] = o.pc]
           /\ retries' = [retries EXCEPT ![t] = o.retries]
           /\ finished' = IF o.pc = "done" THEN Append(finished, t) ELSE finished
    /\ UNCHANGED <<filepath, fetched, storeVars, connVars, toolVars>>

\* the backup directory before the run: any base name may hold a file (the
\* user may have deleted, added or replaced files since the earlier run);
\* the state manager is loaded and validated; two messages are scheduled
InitDownload ==
    /\ StoreIdle /\ WritersIdle /\ ToolsIdle
    /\ disk \in [Paths -> 0..MaxContent]
    /\ \A p \in Paths : p \notin BasePaths => disk[p] = 0
    /\ \E useDb \in BOOLEAN : \E s \in EarlierRuns(useDb) :
          sm = init_and_validate_state(s, disk)
    /\ \E S \in SUBSET Msgs :
          /\ Cardinality(S) = 2
          /\ pc = [m \in Msgs |-> IF m \in S THEN "ready" ELSE "none"]
    /\ filepath = [m \in Msgs |-> <<0, 0>>]
    /\ retries = [m \in Msgs |-> 0]
    /\ fetched = [m \in Msgs |-> 0]
    /\ finished = <<>>

NextDownload ==
    \/ \E t \in Msgs, n \in Names : Start(t, n)
    \/ \E t \in Msgs, c \in Contents : Download(t, c)
    \/ \E t \in Msgs : Resume(t)

SpecDownload == InitDownload /\ [][NextDownload]_vars

\* ------------------------------------------------------------- C1
\* C1: when two download tasks have both fetched a file of the same (size,
\* sample hash) and both have finished the critical section, the hash index holds
\* one entry for the key, and there is exactly one duplicate link: from the
\* task that finished second to the one that finished first, which is the
\* only one of the two recorded as a downloaded (canonical) item.
Links(s) ==
    IF s.use_db THEN {<<Str(r.duplicate_msg_id), PyStr(r.canonical_msg_id)>> : r \in s.db.duplicates}
    ELSE {<<id, s.state.duplicate_map[id]>> : id \in DOMAIN s.state.duplicate_map}
Before(a, b) ==
    \E i, j \in 1..Len(finished) : i < j /\ finished[i] = a /\ finished[j] = b
C1_OneEntryOneLink ==
    \A a, b \in Msgs :
        (Before(a, b) /\ fetched[a] # 0 /\ fetched[a] = fetched[b]) =>
            /\ IndexEntry(sm, KeyOfFile(fetched, a)) # <<>>
            /\ OneEntryPerKey(sm)
            /\ Links(sm) = {<<Str(b), Str(a)>>}
            /\ is_message_downloaded(sm, a)
            /\ is_duplicate(sm, a) = <<>>

\* ------------------------------------------------------------- C14
\* The maintenance passes over a store whose files may since have gone: the
\* validation a resumed run starts with, index rebuild, orphan cleanup, prune.
ResumeValidation ==
    /\ Apply(Call("validate", 0, <<0, 0>>, <<0, 0>>, <<"none", 0>>),
             init_and_validate_state(sqlSM, disk),
             init_and_validate_state(jsonSM, disk), <<>>, <<>>)
    /\ UNCHANGED <<disk, firstReg, dlVars, connVars, toolVars>>

NextMaintain ==
    \/ \E m \in Msgs, p \in BasePaths : RecordDownload(m, p)
    \/ \E m \in Msgs : MarkSkipped(m)
    \/ \E p \in BasePaths : FileRemoved(p)
    \/ ResumeValidation
    \/ Rebuild
    \/ Cleanup
    \/ Prune

SpecMaintain == InitStore /\ [][NextMaintain]_vars

\* C14: no operation of the engine removes an item record or a status record:
\* an item that has a record (or a status) before a step has it after the
\* step, in either backend, also when its file has disappeared.
HasStatus(s, m) ==
    IF s.use_db THEN get_message_status(s.db, m) # "none"
    ELSE is_message_downloaded(s, m) \/ is_message_skipped(s, m) \/ is_message_failed(s, m)
C14_NoRecordRemoved ==
    [][\A m \in Msgs :
        /\ is_message_downloaded(sqlSM, m) => is_message_downloaded(sqlSM', m)
        /\ is_message_downloaded(jsonSM, m) => is_message_downloaded(jsonSM', m)
        /\ HasStatus(sqlSM, m) => HasStatus(sqlSM', m)
        /\ HasStatus(jsonSM, m) => HasStatus(jsonSM', m)]_vars

\* ------------------------------------------------------------- C13
\* C13: for a fixed set of candidate items processed concurrently, the final
\* persisted state (item records, statuses, duplicate links, hash index
\* entries, counters) is the same whichever item completes first.
\* The persisted state, without timestamps and without the order of entries:
Persisted(s) ==
    IF s.use_db
    THEN [records |-> {[id |-> r.message_id, path |-> r.file_path, size |-> r.file_size,
                        sample_hash |-> r.sample_hash] : r \in s.db.messages},
          statuses |-> s.db.message_status,
          links |-> Links(s),
          index |-> s.db.file_hashes,
          counters |-> <<s.db.total_files, s.db.total_bytes>>]
    ELSE [records |-> {[id |-> s.state.downloaded_messages[i].id,
                        path |-> s.state.downloaded_messages[i].path,
                        size |-> s.state.downloaded_messages[i].size,
                        sample_hash |-> s.state.downloaded_messages[i].sample_hash] :
                            i \in 1..Len(s.state.downloaded_messages)},
          statuses |-> <<{s.state.skipped_messages[i] : i \in 1..Len(s.state.skipped_messages)},
                         {s.state.failed_messages[i] : i \in 1..Len(s.state.failed_messages)}>>,
          links |-> Links(s),
          index |-> <<{<<k, {s.state.hash_index[k][i] : i \in 1..Len(s.state.hash_index[k])}>> :
                          k \in DOMAIN s.state.hash_index},
                      s.gstate.hash_index>>,
          counters |-> <<s.state.total_files, s.state.total_bytes>>]
\* the store after a completes and then b, both being back from download_media
CompletedInOrder(a, b) ==
    LET o == after_download(sm, disk, a, filepath[a], retries[a])
    IN  after_download(o.sm, o.disk, b, filepath[b], retries[b]).sm
C13_CompletionOrderIrrelevant ==
    \A a, b \in Msgs :
        (a # b /\ pc[a] = "downloaded" /\ pc[b] = "downloaded" /\ filepath[a] # filepath[b]) =>
            Persisted(CompletedInOrder(a, b)) = Persisted(CompletedInOrder(b, a))

\* ------------------------------------------------------------- C11
\* C11: no duplicate link maps an item to itself: whenever the downloader
\* has recorded an item as a duplicate, the canonical of the link is another
\* item, also when the item had an earlier record and was fetched again.
C11_NoSelfLink ==
    \A m \in Msgs : <<Str(m), Str(m)>> \notin Links(sm)

\* ================================== interruption of a run while persisting
\* One backup process records downloads with mark_downloaded and may be killed
\* at any point; the next run constructs its StateManager from what is on
\* disk. The JSON backend keeps the state in memory and rewrites the whole
\* state file on every call; the SQLite backend commits statement by
\* statement into the database file, which is live.db itself.

\* StateManager._load_state: the parsed file, or a new state when the file is
\* absent or json.load raises
load_state(f) == IF f.kind = "whole" THEN f.text ELSE EmptyState

RecordOfCall(m, p, c) == [id |-> m, path |-> p, size |-> SizeOf(c), sample_hash |-> c]

\* mark_downloaded, JSON branch, up to and including open(state_file, 'w') in
\* _save_state: the state is updated in memory and the file is truncated
MutateAndOpen(m, p, c) ==
    /\ at = "idle" /\ ~live.use_db /\ calls < MaxCalls
    /\ live' = mark_downloaded_json(live, m, p, SizeOf(c), c)
    /\ state_file' = [kind |-> "partial", text |-> EmptyState]
    /\ at' = "opened"
    /\ pending' = RecordOfCall(m, p, c)
    /\ calls' = calls + 1
    /\ UNCHANGED <<committed, disk, storeVars, dlVars, connVars, notPersist>>

\* json.dump(self.state, f) runs to its end and the file is closed
JsonDump ==
    /\ at = "opened"
    /\ state_file' = [kind |-> "whole", text |-> live.state]
    /\ at' = "idle"
    /\ committed' = [committed EXCEPT ![pending.id] = pending]
    /\ pending' = NoRecord
    /\ UNCHANGED <<live, calls, disk, storeVars, dlVars, connVars, notPersist>>

\* mark_downloaded, SQLite branch: db.add_message commits the messages row
AddMessage(m, p, c) ==
    /\ at = "idle" /\ live.use_db /\ calls < MaxCalls
    /\ live' = [live EXCEPT !.db = add_message(@, m, p, SizeOf(c), c)]
    /\ at' = "added"
    /\ pending' = RecordOfCall(m, p, c)
    /\ committed' = [committed EXCEPT ![m] = RecordOfCall(m, p, c)]
    /\ calls' = calls + 1
    /\ UNCHANGED <<state_file, disk, storeVars, dlVars, connVars, notPersist>>

SetStatus ==
    /\ at = "added"
    /\ live' = [live EXCEPT !.db = set_message_status(@, pending.id, "downloaded")]
    /\ at' = "status"
    /\ UNCHANGED <<state_file, pending, committed, calls, disk, storeVars, dlVars, connVars, notPersist>>

RegisterHash ==
    /\ at = "status"
    /\ live' = IF pending.sample_hash # 0 /\ pending.size > 0
               THEN [live EXCEPT !.db = register_file_hash(@, pending.size,
                                                           pending.sample_hash, pending.path)]
               ELSE live
    /\ at' = "hashed"
    /\ UNCHANGED <<state_file, pending, committed, calls, disk, storeVars, dlVars, connVars, notPersist>>

UpdateStats ==
    /\ at = "hashed"
    /\ live' = [live EXCEPT !.db = db_count_download(@, pending.id, pending.size)]
    /\ at' = "idle"
    /\ pending' = NoRecord
    /\ UNCHANGED <<state_file, committed, calls, disk, storeVars, dlVars, connVars, notPersist>>

\* the process is killed and the next run constructs its StateManager:
\* StateManager.__init__ opens the database, or reads the state file
Interrupt ==
    /\ live' = IF live.use_db THEN live
               ELSE [live EXCEPT !.state = load_state(state_file)]
    /\ at' = "idle"
    /\ pending' = NoRecord
    /\ UNCHANGED <<state_file, committed, calls, disk, storeVars, dlVars, connVars, notPersist>>

InitPersist ==
    /\ StoreIdle /\ DownloaderIdle /\ WritersIdle
    /\ FullDisk(disk)
    /\ live \in {NewSM(TRUE), NewSM(FALSE)}
    /\ state_file = NoFile
    /\ at = "idle"
    /\ pending = NoRecord
    /\ committed = [m \in Msgs |-> NoRecord]
    /\ calls = 0
    /\ MigrateIdle /\ ValidateIdle /\ SyncIdle /\ ConsolidateIdle /\ ScanIdle /\ RetryIdle /\ FaultIdle /\ PoolIdle /\ ChatIdle /\ TransferIdle

NextPersist ==
    \/ \E m \in Msgs, p \in BasePaths, c \in Contents : MutateAndOpen(m, p, c)
    \/ JsonDump
    \/ \E m \in Msgs, p \in BasePaths, c \in Contents : AddMessage(m, p, c)
    \/ SetStatus
    \/ RegisterHash
    \/ UpdateStats
    \/ Interrupt

SpecPersist == InitPersist /\ [][NextPersist]_vars

\* ------------------------------------------------------------- C12
\* C12: after an interruption at any point, every item record that was
\* committed before it is still present and unchanged in the store the next
\* run loads, for the JSON state file and for the SQLite store alike.
RecordIn(s, m) ==
    IF ~is_message_downloaded(s, m) THEN NoRecord
    ELSE IF s.use_db
         THEN LET r == CHOOSE r \in s.db.messages : r.message_id = m
              IN  [id |-> m, path |-> r.file_path, size |-> r.file_size,
                   sample_hash |-> r.sample_hash]
         ELSE LET e == DmGet(s.state, Str(m))
              IN  [id |-> m, path |-> e.path, size |-> e.size, sample_hash |-> e.sample_hash]
C12_CommittedRecordsSurvive ==
    at = "idle" =>
        \A m \in Msgs : committed[m] # NoRecord => RecordIn(live, m) = committed[m]

\* ===================================== seed_from_json.py and the export back
\* int(s) of a tagged string: <<n>>, or <<>> where int() raises ValueError
PyInt(v) == IF v[1] \in {"s", "i"} THEN <<v[2]>> ELSE <<>>

\* import_chat_state, "Import messages": add_message, set_message_status
\* 'downloaded' and register_file_hash for every entry, in dict order
RECURSIVE ImportMessages(_, _, _)
ImportMessages(db, entries, i) ==
    IF i > Len(entries) THEN db
    ELSE LET e == entries[i]
             m == PyInt(e.id)[1]
             d1 == set_message_status(add_message(db, m, e.path, e.size, e.sample_hash),
                                      m, "downloaded")
             d2 == IF e.sample_hash # 0 /\ e.size > 0
                   THEN register_file_hash(d1, e.size, e.sample_hash, e.path)
                   ELSE d1
         IN  ImportMessages(d2, entries, i + 1)

\* import_chat_state, "Import skipped messages" / "Import failed messages"
RECURSIVE ImportStatuses(_, _, _, _)
ImportStatuses(db, ids, status, i) ==
    IF i > Len(ids) THEN db
    ELSE ImportStatuses(set_message_status(db, ids[i], status), ids, status, i + 1)

\* import_chat_state, "Import duplicates": 'global' becomes -1; a value int()
\* cannot parse raises, the exception is logged and the mapping is skipped
ImportDuplicates(db, dmap) ==
    LET canon(v) == IF v = GlobalStr THEN <<-1>> ELSE PyInt(v)
        fresh == {k \in DOMAIN dmap :
                    /\ canon(dmap[k]) # <<>>
                    /\ ~\E r \in db.duplicates : r.duplicate_msg_id = PyInt(k)[1]}
    IN  [db EXCEPT !.duplicates = @ \cup
            {[duplicate_msg_id |-> PyInt(k)[1],
              canonical_msg_id |-> IntVal(canon(dmap[k])[1])] : k \in fresh}]

\* the chat counters are written only when the chat row has no started_at,
\* and get_or_create_chat always sets started_at: they stay at their defaults
import_chat_state(db, st) ==
    ImportDuplicates(
        ImportStatuses(
            ImportStatuses(ImportMessages(db, st.downloaded_messages, 1),
                           st.skipped_messages, "skipped", 1),
            st.failed_messages, "failed", 1),
        st.duplicate_map)

\* import_global_state: each entry whose file still exists is registered
\* (register_file_hash keeps an entry the chat import has already made)
import_global_state(db, g, d) ==
    [db EXCEPT !.file_hashes = @ \cup
        {[hash_key |-> k, first_occurrence_path |-> g.hash_index[k]] :
            k \in {x \in DOMAIN g.hash_index :
                      Exists(d, g.hash_index[x]) /\ ~HasHash(db, x)}}]

\* seed_database: a new database, every chat state file, then the global one
seed_database(st, g, d) == import_global_state(import_chat_state(EmptyDB, st), g, d)

\* the rows of a table as a list in insertion order
RECURSIVE RowsInOrder(_)
RowsInOrder(rows) ==
    IF rows = {} THEN <<>>
    ELSE LET first == CHOOSE r \in rows : \A x \in rows : r.downloaded_at <= x.downloaded_at
         IN  <<first>> \o RowsInOrder(rows \ {first})

\* DatabaseManager.export_chat_to_json: the keys of a dict become strings in
\* the JSON file, the values stay what they are in the database
export_chat_to_json(db) ==
    LET msgs == RowsInOrder(db.messages)
        entries == [i \in 1..Len(msgs) |->
                      [id |-> Str(msgs[i].message_id), path |-> msgs[i].file_path,
                       size |-> msgs[i].file_size, sample_hash |-> msgs[i].sample_hash]]
        Listed(status) ==
            RowsInOrder({[downloaded_at |-> r.message_id, message_id |-> r.message_id] :
                            r \in {x \in db.message_status : x.status = status}})
        st == [EmptyState EXCEPT
                 !.downloaded_messages = entries,
                 !.skipped_messages = [i \in 1..Len(Listed("skipped")) |->
                                          Listed("skipped")[i].message_id],
                 !.failed_messages = [i \in 1..Len(Listed("failed")) |->
                                         Listed("failed")[i].message_id],
                 !.total_files = db.total_files,
                 !.total_bytes = db.total_bytes,
                 !.last_message_id = db.last_message_id,
                 !.duplicate_map = [k \in {Str(r.duplicate_msg_id) : r \in db.duplicates} |->
                     (CHOOSE r \in db.duplicates : Str(r.duplicate_msg_id) = k).canonical_msg_id]]
    IN  RebuildFrom(st, entries, 1)

\* DatabaseManager._export_global_state
export_global_state(db) ==
    [hash_index |-> [k \in {r.hash_key : r \in db.file_hashes} |->
        (CHOOSE r \in db.file_hashes : r.hash_key = k).first_occurrence_path]]

\* The JSON backend is used (the SQLite manager of the lockstep steps is not
\* looked at), then its state files are imported, then exported back.
UseJson ==
    /\ seeded = <<>>
    /\ \/ \E m \in Msgs, p \in BasePaths : RecordDownload(m, p)
       \/ \E m \in Msgs : MarkSkipped(m)
       \/ \E m \in Msgs : MarkFailed(m)
       \/ \E m \in Msgs, canonical \in CanonicalArgs : MarkDuplicate(m, canonical)

Seed ==
    /\ seeded = <<>>
    /\ seeded' = <<seed_database(jsonSM.state, jsonSM.gstate, disk)>>
    /\ UNCHANGED <<exported, disk, storeVars, dlVars, connVars, notMigrate>>

Export ==
    /\ seeded # <<>> /\ exported = <<>>
    /\ exported' = <<[state |-> export_chat_to_json(seeded[1]),
                      gstate |-> export_global_state(seeded[1])]>>
    /\ UNCHANGED <<seeded, disk, storeVars, dlVars, connVars, notMigrate>>

NextMigrate ==
    \/ UseJson
    \/ Seed
    \/ Export

SpecMigrate == InitStore /\ [][NextMigrate]_vars

\* ------------------------------------------------------------- C15
\* C15: importing a JSON store into SQLite and exporting it back gives the
\* same items, statuses, duplicate links (links to 'global' included) and
\* hash index entries as the JSON store that was imported.
\* What is compared: entries as sets, a link's canonical by its value (the
\* string '1' and the integer 1 count as the same canonical).
StoreView(st, g) ==
    LET Canon(v) == IF PyInt(v) # <<>> THEN <<"id", PyInt(v)[1]>> ELSE v
    IN  [items |-> {st.downloaded_messages[i] : i \in 1..Len(st.downloaded_messages)},
         skipped |-> {st.skipped_messages[i] : i \in 1..Len(st.skipped_messages)},
         failed |-> {st.failed_messages[i] : i \in 1..Len(st.failed_messages)},
         links |-> {<<k, Canon(st.duplicate_map[k])>> : k \in DOMAIN st.duplicate_map},
         chat_index |-> {<<k, {st.hash_index[k][i] : i \in 1..Len(st.hash_index[k])}>> :
                            k \in DOMAIN st.hash_index},
         global_index |-> g.hash_index]
C15_MigrationLossless ==
    exported # <<>> =>
        StoreView(exported[1].state, exported[1].gstate) = StoreView(jsonSM.state, jsonSM.gstate)

\* ================================================ validating a recorded file
\* One item (message 1, path <<1, 0>>) with a declared size, recorded or not,
\* with or without a path, and whatever is on disk at that path; sizes are in
\* bytes.  A file of n > 0 bytes is the content 2n, an empty file EmptyFile.
EmptyFile == -1
DeclaredSizes == {0, 1000, 200000, 1000000}
ActualSizes == {1, 1000, 2024, 2025, 197999, 198000, 202000, 202001,
                500000, 990000, 1000005, 1010000, 1010001}
FilesOfInterest == {0, EmptyFile} \cup {2 * n : n \in ActualSizes}

\* the stores in which message 1 is unknown, recorded with a path and a
\* declared size, or recorded without a path (an entry migrated from the old
\* list format, or imported from it)
StoresToValidate(useDb) ==
    {NewSM(useDb)} \cup
    {mark_downloaded(NewSM(useDb), 1, <<1, 0>>, e, 1) : e \in DeclaredSizes} \cup
    {IF useDb
     THEN [NewSM(TRUE) EXCEPT !.db = set_message_status(add_message(@, 1, NoPath, 0, 0),
                                                         1, "downloaded")]
     ELSE [NewSM(FALSE) EXCEPT !.state.downloaded_messages =
              <<[id |-> Str(1), path |-> NoPath, size |-> 0, sample_hash |-> 0]>>]}

Validate(m) ==
    /\ validation' = [m |-> m, valid |-> validate_downloaded_file(sm, disk, m)]
    /\ UNCHANGED <<disk, storeVars, dlVars, connVars, notValidate>>

\* the file at the item's path is written, replaced, truncated or deleted
Rewrite(c) ==
    /\ disk[<<1, 0>>] # c
    /\ disk' = [disk EXCEPT ![<<1, 0>>] = c]
    /\ validation' = NoValidation
    /\ UNCHANGED <<storeVars, dlVars, connVars, notValidate>>

InitValidate ==
    /\ StoreIdle /\ WritersIdle /\ ToolsIdle
    /\ \E useDb \in BOOLEAN : sm \in StoresToValidate(useDb)
    /\ disk = [p \in Paths |-> 0]
    /\ pc = [m \in Msgs |-> "none"]
    /\ filepath = [m \in Msgs |-> <<0, 0>>]
    /\ retries = [m \in Msgs |-> 0]
    /\ fetched = [m \in Msgs |-> 0]
    /\ finished = <<>>

NextValidate ==
    \/ \E m \in Msgs : Validate(m)
    \/ \E c \in FilesOfInterest : Rewrite(c)

SpecValidate == InitValidate /\ [][NextValidate]_vars

\* ------------------------------------------------------------- C16
\* C16: a recorded file is reported intact exactly when the item has a recorded
\* path, a file exists there, its actual size is above zero, and either no
\* declared size above zero is recorded or the actual size is within 1% of
\* the declared size or within 1024 bytes of it.  With 1,000,000 bytes
\* declared, 1,000,005 bytes on disk are intact; 0 and 500,000 bytes are not.
Distance(a, b) == IF a >= b THEN a - b ELSE b - a
Intact(m) ==
    LET rec == RecordIn(sm, m)
        actual == SizeOf(disk[rec.path])
    IN  /\ rec # NoRecord
        /\ rec.path # NoPath
        /\ Exists(disk, rec.path)
        /\ actual > 0
        /\ \/ ~(rec.size > 0)
           \/ 100 * Distance(actual, rec.size) <= rec.size
           \/ Distance(actual, rec.size) <= 1024
OnDisk(n) == disk[<<1, 0>>] = 2 * n
C16_IntactExactlyWhen ==
    validation.m # 0 =>
        /\ validation.valid = Intact(validation.m)
        /\ (validation.m = 1 /\ RecordIn(sm, 1).size = 1000000) =>
              /\ OnDisk(1000005) => validation.valid
              /\ OnDisk(500000) => ~validation.valid
              /\ disk[<<1, 0>>] = EmptyFile => ~validation.valid
\* the claim's example has been validated and found intact
C16_Witness ==
    /\ validation = [m |-> 1, valid |-> TRUE]
    /\ RecordIn(sm, 1).size = 1000000
    /\ OnDisk(1000005)

\* ============================================================ sync_state.py
\* A path is <<directory, filename>> and a filename <<leading number, stem>>:
\* <<0, <<5, 0>>>> is "5.jpg" in the chat folder, <<1, <<0, 1>>>> a file whose
\* name has no leading number, in a subfolder.  Every listed file has the
\* same size and sample hash; the remote gives no hash.
NoSyncPath == <<0, <<0, 0>>>>
IdFile(m) == <<0, <<m, 0>>>>
NamedFiles == {<<0, <<0, 1>>>>, <<1, <<0, 1>>>>}
Listable == {IdFile(m) : m \in Msgs} \cup NamedFiles
basename(p) == p[2]
MaxOf(S) == CHOOSE x \in S : \A y \in S : y <= x

\* extract_message_id_from_filename: the leading number, 0 for None
extract_message_id_from_filename(filename) == filename[1]

\* scan_local_files / scan_remote_files: the record of one listed file
LocalRecord(p) ==
    [message_id |-> extract_message_id_from_filename(basename(p)), filename |-> basename(p),
     file_path |-> p, local_path |-> p, remote_path |-> NoSyncPath,
     file_size |-> 1, sample_hash |-> 1]
RemoteRecord(p) ==
    [message_id |-> extract_message_id_from_filename(basename(p)), filename |-> basename(p),
     file_path |-> NoSyncPath, local_path |-> NoSyncPath, remote_path |-> p,
     file_size |-> 1, sample_hash |-> 0]

\* DatabaseManager.add_message as sync_chat_state calls it, with local_path,
\* remote_path (remote_ref goes with it) and storage_status: an upsert
add_message_storage(db, m, file_path, size, hash, local_path, remote_path, storage_status) ==
    [db EXCEPT
        !.messages = {r \in @ : r.message_id # m} \cup
            {[message_id |-> m, file_path |-> file_path, file_size |-> size,
              sample_hash |-> hash, downloaded_at |-> db.now, local_path |-> local_path,
              remote_path |-> remote_path, storage_status |-> storage_status]},
        !.now = @ + 1]

\* DatabaseManager.mark_message_missing: the row stays, tagged 'missing'
mark_message_missing(db, m) ==
    [set_message_status(db, m, "missing") EXCEPT
        !.messages = {IF r.message_id = m THEN [r EXCEPT !.storage_status = "missing"] ELSE r :
                        r \in @}]

\* a row written by mark_downloaded has no value in the columns sync adds
NullSyncColumns(r) ==
    IF "storage_status" \in DOMAIN r THEN r
    ELSE [message_id |-> r.message_id, file_path |-> r.file_path, file_size |-> r.file_size,
          sample_hash |-> r.sample_hash, downloaded_at |-> r.downloaded_at,
          local_path |-> NoSyncPath, remote_path |-> NoSyncPath, storage_status |-> "none"]

\* row.get('local_path') or row.get('file_path')
RowLocalPath(r) == IF r.local_path # NoSyncPath THEN r.local_path ELSE r.file_path

\* resolve_message_ids_from_state: the dicts path -> message id, filled in a
\* loop over the rows in message_id order, a later row replacing an earlier
local_path_to_msg(rows) ==
    [p \in {RowLocalPath(r) : r \in rows} \ {NoSyncPath} |->
        MaxOf({r.message_id : r \in {x \in rows : RowLocalPath(x) = p}})]
remote_path_to_msg(rows) ==
    [p \in {r.remote_path : r \in rows} \ {NoSyncPath} |->
        MaxOf({r.message_id : r \in {x \in rows : x.remote_path = p}})]

\* _build_basename_index: basename -> message id, for the basenames whose
\* paths in the dict map to one message id
build_basename_index(paths_to_msg_ids) ==
    LET grouped(b) == {paths_to_msg_ids[p] :
                          p \in {q \in DOMAIN paths_to_msg_ids : basename(q) = b}}
    IN  [b \in {x \in {basename(p) : p \in DOMAIN paths_to_msg_ids} :
                    Cardinality(grouped(x)) = 1} |->
            CHOOSE i \in grouped(b) : TRUE]

ResolveRecord(rec, path, path_to_msg, basename_to_msg) ==
    IF rec.message_id # 0 THEN rec
    ELSE IF path \in DOMAIN path_to_msg THEN [rec EXCEPT !.message_id = path_to_msg[path]]
    ELSE IF rec.filename \in DOMAIN basename_to_msg
         THEN [rec EXCEPT !.message_id = basename_to_msg[rec.filename]]
    ELSE rec

resolve_message_ids_from_state(local_records, remote_records, existing_messages) ==
    LET lp == local_path_to_msg(existing_messages)
        rp == remote_path_to_msg(existing_messages)
    IN  [local |-> [i \in 1..Len(local_records) |->
                      ResolveRecord(local_records[i], local_records[i].local_path,
                                    lp, build_basename_index(lp))],
         remote |-> [i \in 1..Len(remote_records) |->
                      ResolveRecord(remote_records[i], remote_records[i].remote_path,
                                    rp, build_basename_index(rp))]]

\* the message ids of a list of records, and the record a dict comprehension
\* keeps for an id (the last one)
IdsOf(records) == {records[i].message_id : i \in 1..Len(records)} \ {0}
LastWith(records, m) == records[MaxOf({i \in 1..Len(records) : records[i].message_id = m})]

\* sync_chat_state: the loop over all_msg_ids (small integers, so ascending)
RECURSIVE SyncMessages(_, _, _, _)
SyncMessages(db, ids, local_records, remote_records) ==
    IF ids = {} THEN db
    ELSE LET m == Min(ids)
             inL == m \in IdsOf(local_records)
             inR == m \in IdsOf(remote_records)
             l == LastWith(local_records, m)
             r == LastWith(remote_records, m)
             d1 == IF inL /\ inR
                   THEN add_message_storage(db, m, l.file_path, l.file_size,
                            IF l.sample_hash # 0 THEN l.sample_hash ELSE r.sample_hash,
                            l.local_path, r.remote_path, "both")
                   ELSE IF inL
                   THEN add_message_storage(db, m, l.file_path, l.file_size, l.sample_hash,
                                            l.local_path, NoSyncPath, "local")
                   ELSE add_message_storage(db, m, NoSyncPath, r.file_size, r.sample_hash,
                                            NoSyncPath, r.remote_path, "remote")
         IN  SyncMessages(set_message_status(d1, m, "downloaded"), ids \ {m},
                          local_records, remote_records)

sync_chat_state_LocalIdsOnly(db, local_records, remote_records) ==
    SyncMessages(db, IdsOf(local_records), local_records, remote_records)
sync_chat_state(db, local_records, remote_records) ==
    SyncMessages(db, IdsOf(local_records) \cup IdsOf(remote_records),
                 local_records, remote_records)

RECURSIVE MarkMissing(_, _)
MarkMissing(db, ids) ==
    IF ids = {} THEN db
    ELSE MarkMissing(mark_message_missing(db, Min(ids)), ids \ {Min(ids)})

\* sync_state for one chat: scan, resolve, merge, mark the rows seen in
\* neither listing, write the counters, rebuild the hash index
ScannedLocal(tree) == [i \in 1..Len(tree) |-> LocalRecord(tree[i])]
ScannedRemote(tree) == [i \in 1..Len(tree) |-> RemoteRecord(tree[i])]
Resolved(db, lt, rt) ==
    resolve_message_ids_from_state(ScannedLocal(lt), ScannedRemote(rt),
                                   db.messages)
sync_state(db, lt, rt) ==
    LET res == Resolved(db, lt, rt)
        d1 == sync_chat_state(db, res.local, res.remote)
        seen_msg_ids == IdsOf(res.local) \cup IdsOf(res.remote)
        d2 == MarkMissing(d1, {r.message_id : r \in db.messages} \ seen_msg_ids)
        d3 == [d2 EXCEPT !.total_files = Len(lt) + Len(rt),
                         !.total_bytes = Len(lt) + Len(rt)]
    IN  rebuild_hash_index_from_messages(d3)

SetUpSteps == Len(local_tree) + Len(remote_tree) + (store.now - 1)

\* a file appears in the backup folder, or on the remote (the steps that set
\* the scene commute, so they are taken in one order: store, local, remote)
ListLocal(p) ==
    /\ runs = 0 /\ SetUpSteps < MaxListed
    /\ remote_tree = <<>>
    /\ ~SeqContains(local_tree, p)
    /\ local_tree' = Append(local_tree, p)
    /\ UNCHANGED <<remote_tree, store, runs, last, disk, storeVars, dlVars, connVars, notSync>>

ListRemote(p) ==
    /\ runs = 0 /\ SetUpSteps < MaxListed
    /\ ~SeqContains(remote_tree, p)
    /\ remote_tree' = Append(remote_tree, p)
    /\ UNCHANGED <<local_tree, store, runs, last, disk, storeVars, dlVars, connVars, notSync>>

\* an earlier backup run has downloaded message m to path p (mark_downloaded)
Record(m, p) ==
    /\ runs = 0 /\ SetUpSteps < MaxListed
    /\ local_tree = <<>> /\ remote_tree = <<>>
    /\ ~db_is_message_downloaded(store, m)
    /\ store' = [mark_downloaded_sql(store, m, p, 1, 1) EXCEPT
                    !.messages = {NullSyncColumns(r) : r \in @}]
    /\ UNCHANGED <<local_tree, remote_tree, runs, last, disk, storeVars, dlVars, connVars, notSync>>

Sync ==
    /\ runs < MaxRuns
    /\ store' = sync_state(store, local_tree, remote_tree)
    /\ runs' = runs + 1
    /\ last' = [before |-> store,
                local |-> Resolved(store, local_tree, remote_tree).local,
                remote |-> Resolved(store, local_tree, remote_tree).remote]
    /\ UNCHANGED <<local_tree, remote_tree, disk, storeVars, dlVars, connVars, notSync>>

\* the listings and the store of the worked example: 1, 2, 3 local,
\* 2, 3, 4 remote, 1, 2 and 5 recorded by an earlier run
ExampleLocal == <<IdFile(1), IdFile(2), IdFile(3)>>
ExampleRemote == <<IdFile(2), IdFile(3), IdFile(4)>>
ExampleStore ==
    [mark_downloaded_sql(
        mark_downloaded_sql(
            mark_downloaded_sql(EmptyDB, 1, IdFile(1), 1, 1), 2, IdFile(2), 1, 1),
        5, IdFile(5), 1, 1)
     EXCEPT !.messages = {NullSyncColumns(r) : r \in @}]

InitSync ==
    /\ StoreIdle /\ DownloaderIdle /\ WritersIdle
    /\ PersistIdle /\ MigrateIdle /\ ValidateIdle /\ ConsolidateIdle /\ ScanIdle /\ RetryIdle /\ FaultIdle /\ PoolIdle /\ ChatIdle /\ TransferIdle
    /\ disk = [p \in Paths |-> 0]
    /\ \/ local_tree = <<>> /\ remote_tree = <<>> /\ store = EmptyDB
       \/ local_tree = ExampleLocal /\ remote_tree = ExampleRemote /\ store = ExampleStore
    /\ runs = 0
    /\ last = NoRun

NextSync ==
    \/ \E p \in Listable : ListLocal(p)
    \/ \E p \in Listable : ListRemote(p)
    \/ \E m \in Msgs, p \in Listable : Record(m, p)
    \/ Sync

SpecSync == InitSync /\ [][NextSync]_vars

\* ============================================ consolidating duplicate files
\* One chat folder under the backup directory and the duplicates folder next
\* to it; a file is the pair of the order it was put in and its content.
\* The file name n of the chat folder is quarantined at duplicates/chat/n.
Present(tree) == {tree[n] : n \in Names} \ {NoFileAt}
FileKey(f) == <<SizeOf(f.content), f.content>>

\* the groups of file names with the same size and sample hash, two or more
group_duplicates(tree) ==
    LET names == {n \in Names : tree[n] # NoFileAt}
    IN  {g \in {{n \in names : FileKey(tree[n]) = FileKey(tree[k])} : k \in names} :
            Cardinality(g) > 1}

\* the relative path n under the chat folder, and under duplicates/
InChat(n) == <<n, 0>>
InQuarantine(n) == <<n, -1>>

\* the orders os.walk can yield the chat folder's files in
WalkOrders == {o \in [1..MaxName -> Names] : \A i, j \in 1..MaxName : o[i] = o[j] => i = j}
FirstIn(order, g) == order[Min({i \in DOMAIN order : order[i] \in g})]

\* message_index of deduplicate_backups.py: the paths the messages table holds
message_index(s) ==
    IF s.use_db THEN {n \in Names : \E r \in s.db.messages : r.file_path = InChat(n)}
    ELSE {}

\* choose_canonical: the first path of the group, in scan order, that is in
\* message_index, else paths[0]
choose_canonical(order, g, index) ==
    IF g \cap index # {} THEN FirstIn(order, g \cap index) ELSE FirstIn(order, g)

\* what is moved: all of each group but the one kept
Duplicates(groups, kept) == (UNION groups) \ kept

\* os.rename(dup_path, new_path) for every path moved: it replaces a file at
\* new_path where the platform lets it, and raises (the file stays) otherwise
Renamed(n, moved, dst) == n \in moved /\ (posix \/ dst[n] = NoFileAt)
move_duplicates(tree, dst, moved) ==
    [src |-> [n \in Names |-> IF Renamed(n, moved, dst) THEN NoFileAt ELSE tree[n]],
     dst |-> [n \in Names |-> IF Renamed(n, moved, dst) THEN tree[n] ELSE dst[n]],
     renamed |-> {n \in Names : Renamed(n, moved, dst)}]

\* scan_and_hash_files: an empty file is removed while scanning
scan_and_hash_files(tree) ==
    [n \in Names |-> IF tree[n] # NoFileAt /\ tree[n].content = EmptyFile
                     THEN NoFileAt ELSE tree[n]]

\* identify_duplicates of migrate_to_hash_detection.py: an empty file is passed over
identify_duplicates(tree) ==
    {g \in group_duplicates(tree) : \A n \in g : tree[n].content # EmptyFile}

\* update_file_path(dup_path, new_path) after each rename that succeeded
RECURSIVE UpdatePaths(_, _)
UpdatePaths(s, renamed) ==
    IF renamed = {} THEN s
    ELSE LET n == Min(renamed)
         IN  UpdatePaths(update_file_path(s, InChat(n), InQuarantine(n)), renamed \ {n})

\* update_state_file_paths: every entry of the JSON state file with the old path
update_state_file_paths(s, renamed) ==
    IF s.use_db THEN s
    ELSE LET entries == s.state.downloaded_messages
         IN  [s EXCEPT !.state.downloaded_messages =
                [i \in DOMAIN entries |->
                    IF \E n \in renamed : entries[i].path = InChat(n)
                    THEN [entries[i] EXCEPT !.path = InQuarantine(entries[i].path[1])]
                    ELSE entries[i]]]

\* a backup run downloads a file into the chat folder, under a free name
Put(n, c) ==
    /\ Cardinality(placed) < MaxFiles
    /\ sweeps < MaxRuns
    /\ folder[n] = NoFileAt
    /\ LET f == [id |-> Cardinality(placed) + 1, content |-> c]
       IN  /\ folder' = [folder EXCEPT ![n] = f]
           /\ placed' = placed \cup {f}
    /\ UNCHANGED <<quarantine, sweeps, posix, book, last_sweep,
                   disk, storeVars, dlVars, connVars, notCons>>

\* the backup run records message m at the file of name n: the download it
\* has just written, or a file it found at the intended path
Track(m, n) ==
    /\ sweeps < MaxRuns
    /\ folder[n] # NoFileAt /\ folder[n].content # EmptyFile
    /\ ~is_message_downloaded(book, m)
    /\ book' = mark_downloaded(book, m, InChat(n), SizeOf(folder[n].content),
                               folder[n].content)
    /\ UNCHANGED <<folder, quarantine, placed, sweeps, posix, last_sweep,
                   disk, storeVars, dlVars, connVars, notCons>>

\* one run of a tool: the groups it found in scan order, the file it keeps
\* of each, the renames, and what the run leaves
Sweep(tool, order, scanned, groups, kept) ==
    LET o == move_duplicates(scanned, quarantine, Duplicates(groups, kept))
    IN  [folder |-> o.src, quarantine |-> o.dst, renamed |-> o.renamed,
         last |-> [tool |-> tool, order |-> order, groups |-> groups, kept |-> kept,
                   moved |-> o.renamed, folder |-> folder, book |-> book]]

\* MediaDownloader.consolidate_duplicates, on a downloader that holds the
\* state manager, or on the one main() builds for --consolidate-duplicates,
\* whose state_manager is None
Consolidate(order, attached) ==
    LET groups == group_duplicates(folder)
        o == Sweep(IF attached THEN "consolidate" ELSE "cli", order, folder, groups,
                   {FirstIn(order, g) : g \in groups})
    IN  /\ sweeps < MaxRuns
        /\ folder' = o.folder
        /\ quarantine' = o.quarantine
        /\ book' = IF attached THEN UpdatePaths(book, o.renamed) ELSE book
        /\ sweeps' = sweeps + 1
        /\ last_sweep' = o.last
        /\ UNCHANGED <<placed, posix, disk, storeVars, dlVars, connVars, notCons>>

\* deduplicate_backups.py, answered 'y': it opens the SQLite database of the
\* backup directory
Deduplicate(order) ==
    LET scanned == scan_and_hash_files(folder)
        groups == group_duplicates(scanned)
        o == Sweep("deduplicate", order, scanned, groups,
                   {choose_canonical(order, g, message_index(book)) : g \in groups})
    IN  /\ sweeps < MaxRuns
        /\ folder' = o.folder
        /\ quarantine' = o.quarantine
        /\ book' = IF book.use_db THEN UpdatePaths(book, o.renamed) ELSE book
        /\ sweeps' = sweeps + 1
        /\ last_sweep' = o.last
        /\ UNCHANGED <<placed, posix, disk, storeVars, dlVars, connVars, notCons>>

\* migrate_to_hash_detection.py, answered 'y': identify_duplicates, then
\* move_duplicates, which rewrites the JSON state files
MoveDuplicates(order) ==
    LET groups == identify_duplicates(folder)
        o == Sweep("migrate", order, folder, groups, {FirstIn(order, g) : g \in groups})
    IN  /\ sweeps < MaxRuns
        /\ folder' = o.folder
        /\ quarantine' = o.quarantine
        /\ book' = update_state_file_paths(book, o.renamed)
        /\ sweeps' = sweeps + 1
        /\ last_sweep' = o.last
        /\ UNCHANGED <<placed, posix, disk, storeVars, dlVars, connVars, notCons>>

InitConsolidate ==
    /\ StoreIdle /\ DownloaderIdle /\ WritersIdle
    /\ PersistIdle /\ MigrateIdle /\ ValidateIdle /\ SyncIdle /\ ScanIdle /\ RetryIdle /\ FaultIdle /\ PoolIdle /\ ChatIdle /\ TransferIdle
    /\ disk = [p \in Paths |-> 0]
    /\ folder = [n \in Names |-> NoFileAt]
    /\ quarantine = [n \in Names |-> NoFileAt]
    /\ placed = {}
    /\ sweeps = 0
    /\ posix \in BOOLEAN
    /\ book \in {NewSM(TRUE), NewSM(FALSE)}
    /\ last_sweep = NoSweep

NextConsolidate ==
    \/ \E n \in Names, c \in Contents \cup {EmptyFile} : Put(n, c)
    \/ \E m \in Msgs, n \in Names : Track(m, n)
    \/ \E order \in WalkOrders, attached \in BOOLEAN : Consolidate(order, attached)
    \/ \E order \in WalkOrders : Deduplicate(order)
    \/ \E order \in WalkOrders : MoveDuplicates(order)

SpecConsolidate == InitConsolidate /\ [][NextConsolidate]_vars

\* ------------------------------------------------- the duplicate scanner
\* find_duplicates.py.  An entry of the tree is a regular file, a regular
\* file that cannot be opened, or a symlink; content is what reading the
\* file returns.  Two contents of one size agree in their first and last
\* sample_size bytes and differ in between.
ScanContents == Contents \cup {EmptyFile}
Entries ==
    [kind : {"file", "unreadable"}, content : ScanContents] \cup {[kind |-> "symlink", content |-> 0]}
PresentPaths(tree) == {p \in ScanPaths : tree[p] # NoEntry}
\* None
NoDigest == <<>>
hash_file_OfSize(e) ==
    IF e.kind = "unreadable" THEN NoDigest ELSE <<"sha256", SizeOf(e.content)>>
hash_file(e) == IF e.kind = "unreadable" THEN NoDigest ELSE <<"sha256", e.content>>
sample_hash_file(e, sample_size) ==
    IF sample_size <= 0 THEN hash_file(e)
    ELSE IF e.kind = "unreadable" THEN NoDigest
    ELSE IF SizeOf(e.content) < sample_size THEN <<"sha256", e.content>>
    ELSE <<"sha256 of the windows", SizeOf(e.content)>>

\* os.walk(root, followlinks=False): the directories in any order, the
\* files of one directory one after the other in any order.
Listings == UNION {[1..n -> ScanPaths] : n \in 0..Cardinality(ScanPaths)}
IsWalk(tree, o) ==
    /\ Len(o) = Cardinality(PresentPaths(tree))
    /\ {o[i] : i \in DOMAIN o} = PresentPaths(tree)
    /\ \A i, j \in DOMAIN o : o[i] = o[j] => i = j
    /\ \A i, j, k \in DOMAIN o : (i < j /\ j < k /\ o[i][1] = o[k][1]) => o[j][1] = o[i][1]
iter_files(tree, order) ==
    SelectSeq(order, LAMBDA p : tree[p].kind # "symlink")

\* the items whose key is (eq = TRUE) or is not (eq = FALSE) k, in order
RECURSIVE Keep(_, _, _, _)
Keep(items, keys, k, eq) ==
    IF items = <<>> THEN <<>>
    ELSE (IF (keys[1] = k) = eq THEN <<items[1]>> ELSE <<>>)
             \o Keep(Tail(items), Tail(keys), k, eq)
\* defaultdict(list) filled by groups[key].append(item): its values, in
\* the order the keys were first seen
RECURSIVE Grouped(_, _)
Grouped(items, keys) ==
    IF items = <<>> THEN <<>>
    ELSE <<Keep(items, keys, keys[1], TRUE)>>
             \o Grouped(Keep(items, keys, keys[1], FALSE), Keep(keys, keys, keys[1], FALSE))
group_by_size(tree, files) ==
    Grouped(files, [i \in DOMAIN files |-> SizeOf(tree[files[i]].content)])
sample_groups(tree, paths, sample_size) ==
    LET digest == [i \in DOMAIN paths |-> sample_hash_file(tree[paths[i]], sample_size)]
    IN  Grouped(Keep(paths, digest, NoDigest, FALSE), Keep(digest, digest, NoDigest, FALSE))
full_groups(tree, sample_paths) ==
    LET digest == [i \in DOMAIN sample_paths |-> hash_file(tree[sample_paths[i]])]
    IN  Grouped(Keep(sample_paths, digest, NoDigest, FALSE), Keep(digest, digest, NoDigest, FALSE))

\* Python's order of two path strings and of two lists of them
PathLess(p, q) == p[1] < q[1] \/ (p[1] = q[1] /\ p[2] < q[2])
RECURSIVE ListLess(_, _)
ListLess(g, h) ==
    IF g = <<>> THEN h # <<>>
    ELSE IF h = <<>> THEN FALSE
    ELSE IF g[1] = h[1] THEN ListLess(Tail(g), Tail(h))
    ELSE PathLess(g[1], h[1])
Elems(s) == {s[i] : i \in DOMAIN s}
RECURSIVE sorted_paths(_)
sorted_paths(s) ==
    IF s = <<>> THEN <<>>
    ELSE LET lo == CHOOSE p \in Elems(s) : \A q \in Elems(s) : ~PathLess(q, p)
         IN  <<lo>> \o sorted_paths(SelectSeq(s, LAMBDA x : x # lo))
RECURSIVE sorted_groups(_)
sorted_groups(s) ==
    IF s = <<>> THEN <<>>
    ELSE LET lo == CHOOSE g \in Elems(s) : \A h \in Elems(s) : ~ListLess(h, g)
         IN  <<lo>> \o sorted_groups(SelectSeq(s, LAMBDA x : x # lo))

\* Stage 3 over the sample groups of one size, Stage 2 over the size groups
RECURSIVE full_stage(_, _)
full_stage(tree, groups) ==
    IF groups = <<>> THEN <<>>
    ELSE (IF Len(groups[1]) < 2 THEN <<>>
          ELSE LET found == SelectSeq(full_groups(tree, groups[1]), LAMBDA g : Len(g) > 1)
               IN  [i \in DOMAIN found |-> sorted_paths(found[i])])
             \o full_stage(tree, Tail(groups))
RECURSIVE sample_stage(_, _, _)
sample_stage(tree, groups, sample_size) ==
    IF groups = <<>> THEN <<>>
    ELSE (IF Len(groups[1]) < 2 THEN <<>>
          ELSE full_stage(tree, sample_groups(tree, groups[1], sample_size)))
             \o sample_stage(tree, Tail(groups), sample_size)
find_duplicates(tree, order, sample_size) ==
    sample_stage(tree, group_by_size(tree, iter_files(tree, order)), sample_size)

\* what the run shows: the groups print_duplicates prints, in its order, or
\* the list write_duplicates_json dumps
print_duplicates_AsFound(duplicates) == duplicates
print_duplicates(duplicates) == sorted_groups(duplicates)
write_duplicates_json(duplicates) ==
    sorted_groups([i \in DOMAIN duplicates |-> sorted_paths(duplicates[i])])

\* a file appears under the root
Plant(p, e) ==
    /\ scan_root[p] = NoEntry
    /\ scan_root' = [scan_root EXCEPT ![p] = e]
    /\ scan_log' = <<>>
    /\ UNCHANGED <<disk, storeVars, dlVars, connVars, notScan>>

\* find_duplicates.main: one run over the root
\* (--sample-size and --json-out are its arguments)
ScanMain(order) ==
    /\ Len(scan_log) < MaxRuns
    /\ IsWalk(scan_root, order)
    /\ \E sample_size \in 0..1, json_out \in BOOLEAN :
        LET duplicates == find_duplicates(scan_root, order, sample_size)
        IN  scan_log' = Append(scan_log,
                [scanned |-> Elems(iter_files(scan_root, order)),
                 duplicates |-> duplicates, json_out |-> json_out,
                 output |-> IF json_out THEN write_duplicates_json(duplicates)
                            ELSE print_duplicates(duplicates)])
    /\ UNCHANGED <<scan_root, disk, storeVars, dlVars, connVars, notScan>>

InitScan ==
    /\ disk = [p \in Paths |-> 0]
    /\ StoreIdle /\ DownloaderIdle /\ WritersIdle /\ ToolsIdle
NextScan ==
    \/ \E p \in ScanPaths, e \in Entries : Plant(p, e)
    \/ \E order \in Listings : ScanMain(order)
SpecScan == InitScan /\ [][NextScan]_vars

\* ------------------------------------------------------ the retry loop
\* The while loop of _download_media, one message at a time: each action is
\* one download_media call with what it came back with, and everything the
\* loop does with it up to the next call or to the return.  pc "returned"
\* is a return that marked nothing.
Came(t, what) == history' = [history EXCEPT ![t] = Append(@, what)]
Slept(t, seconds) == slept' = [slept EXCEPT ![t] = Append(@, seconds)]

\* download_media wrote the file, of content c or empty, and returned its path
Fetched(t, c) ==
    /\ pc[t] = "downloading"
    /\ LET written == [disk EXCEPT ![filepath[t]] = c]
           o == after_download(sm, written, t, filepath[t], retries[t])
       IN  /\ sm' = o.sm
           /\ disk' = o.disk
           /\ pc' = [pc EXCEPT ![t] = o.pc]
           /\ retries' = [retries EXCEPT ![t] = o.retries]
           /\ finished' = IF o.pc = "done" THEN Append(finished, t) ELSE finished
           /\ IF o.pc = "downloading" THEN Slept(t, o.wait) ELSE UNCHANGED slept
    /\ fetched' = [fetched EXCEPT ![t] = c]
    /\ Came(t, IF c = EmptyFile THEN "empty" ELSE "file")
    /\ UNCHANGED <<filepath, storeVars, connVars, notRetry>>

\* download_media returned None
NoMedia(t) ==
    /\ pc[t] = "downloading"
    /\ sm' = mark_skipped(sm, t)
    /\ pc' = [pc EXCEPT ![t] = "skipped"]
    /\ Came(t, "none")
    /\ UNCHANGED <<slept, disk, filepath, retries, fetched, finished, storeVars, connVars, notRetry>>

\* download_media raised FloodWaitError(seconds)
FloodWait(t, seconds) ==
    /\ pc[t] = "downloading"
    /\ Slept(t, seconds)
    /\ retries' = [retries EXCEPT ![t] = @ + 1]
    /\ pc' = [pc EXCEPT ![t] = IF retries[t] + 1 < MAX_RETRIES THEN "downloading" ELSE "returned"]
    /\ Came(t, "flood")
    /\ UNCHANGED <<sm, disk, filepath, fetched, finished, storeVars, connVars, notRetry>>

\* download_media raised an exception whose text contains FILE_REFERENCE
FileReference(t) ==
    /\ pc[t] = "downloading"
    /\ sm' = mark_skipped(sm, t)
    /\ pc' = [pc EXCEPT ![t] = "skipped"]
    /\ Came(t, "file_reference")
    /\ UNCHANGED <<slept, disk, filepath, retries, fetched, finished, storeVars, connVars, notRetry>>

\* download_media raised any other exception
FetchError(t) ==
    /\ pc[t] = "downloading"
    /\ retries' = [retries EXCEPT ![t] = @ + 1]
    /\ IF retries[t] + 1 >= MAX_RETRIES
       THEN /\ sm' = mark_failed(sm, t)
            /\ pc' = [pc EXCEPT ![t] = "failed"]
            /\ UNCHANGED slept
       ELSE /\ Slept(t, RETRY_DELAY)
            /\ UNCHANGED <<sm, pc>>
    /\ Came(t, "error")
    /\ UNCHANGED <<disk, filepath, fetched, finished, storeVars, connVars, notRetry>>

\* a new backup directory, either backend, one message to download
InitRetry ==
    /\ StoreIdle /\ WritersIdle /\ ToolsIdle
    /\ disk = [p \in Paths |-> 0]
    /\ sm \in {NewSM(TRUE), NewSM(FALSE)}
    /\ \E t \in Msgs : pc = [m \in Msgs |-> IF m = t THEN "ready" ELSE "none"]
    /\ filepath = [m \in Msgs |-> <<0, 0>>]
    /\ retries = [m \in Msgs |-> 0]
    /\ fetched = [m \in Msgs |-> 0]
    /\ finished = <<>>
NextRetry ==
    \/ \E t \in Msgs, n \in Names : Start(t, n)
    \/ \E t \in Msgs, c \in Contents \cup {EmptyFile} : Fetched(t, c)
    \/ \E t \in Msgs : NoMedia(t)
    \/ \E t \in Msgs, seconds \in 1..MaxSeconds : FloodWait(t, seconds)
    \/ \E t \in Msgs : FileReference(t)
    \/ \E t \in Msgs : FetchError(t)
SpecRetry == InitRetry /\ [][NextRetry]_vars

\* ------------------------------------------------------ the next run
\* A run over a backup directory an earlier run left: the earlier run
\* recorded one download or none, and marked one message failed, skipped or
\* a duplicate, or none; the directory holds any files.
EarlierOutcomes(useDb) ==
    LET before == EarlierRuns(useDb)
    IN  before
        \cup {mark_failed(s, m) : s \in before, m \in Msgs}
        \cup {mark_skipped(s, m) : s \in before, m \in Msgs}
        \cup {mark_duplicate(s, pair[1], IntVal(pair[2])) :
                s \in before, pair \in {q \in Msgs \X Msgs : q[1] # q[2]}}

InitResume ==
    /\ StoreIdle /\ WritersIdle /\ ToolsIdle
    /\ disk \in [Paths -> 0..MaxContent]
    /\ \A p \in Paths : p \notin BasePaths => disk[p] = 0
    /\ \E useDb \in BOOLEAN : \E s \in EarlierOutcomes(useDb) :
          sm = init_and_validate_state(s, disk)
    /\ \E t \in Msgs : pc = [m \in Msgs |-> IF m = t THEN "ready" ELSE "none"]
    /\ filepath = [m \in Msgs |-> <<0, 0>>]
    /\ retries = [m \in Msgs |-> 0]
    /\ fetched = [m \in Msgs |-> 0]
    /\ finished = <<>>
SpecResume == InitResume /\ [][NextRetry]_vars

\* ------------------------------------------------- the chats table
\* The backup directory's database is opened by the downloader's
\* StateManager, one per chat, and by sync_state, which goes through the
\* chat folders and the chats of the table.  DB_ENABLE is on; the database
\* is new, the directory may hold chat folders already.
\* DatabaseManager.get_or_create_chat: chat_name and chat_hash are UNIQUE
\* columns, chat_id is AUTOINCREMENT
get_or_create_chat(table, chat_name, chat_hash) ==
    LET hit == {r \in table : r.chat_hash = chat_hash}
    IN  IF hit # {}
        THEN [table |-> table, chat_id |-> (CHOOSE r \in hit : TRUE).chat_id, raised |-> FALSE]
        ELSE IF \E r \in table : r.chat_name = chat_name
        THEN [table |-> table, chat_id |-> 0, raised |-> TRUE]
        ELSE LET id == MaxOf({r.chat_id : r \in table} \cup {0}) + 1
             IN  [table |-> table \cup {[chat_id |-> id, chat_name |-> chat_name,
                                         chat_hash |-> chat_hash]},
                  chat_id |-> id, raised |-> FALSE]

\* sync_state.resolve_chat_id; existing is db.get_all_chats() of before the loop
resolve_chat_id(table, existing, chat_name) ==
    LET known == {r \in existing : r.chat_name = chat_name}
    IN  IF known # {}
        THEN [table |-> table, chat_id |-> (CHOOSE r \in known : TRUE).chat_id, raised |-> FALSE]
        ELSE get_or_create_chat(table, chat_name, DirnameHash(chat_name))

\* sorted(chats_to_sync): strings compare by code point
Ord(ch) == CASE ch = ":" -> 58 [] ch = "_" -> 95 [] ch = "a" -> 97
             [] ch = "b" -> 98 [] ch = "c" -> 99 [] OTHER -> 0
RECURSIVE NameLess(_, _)
NameLess(x, y) ==
    IF x = <<>> THEN y # <<>>
    ELSE IF y = <<>> THEN FALSE
    ELSE IF Head(x) = Head(y) THEN NameLess(Tail(x), Tail(y))
    ELSE Ord(Head(x)) < Ord(Head(y))
sorted_chats(S) ==
    CHOOSE s \in [1..Cardinality(S) -> S] :
        \A i, j \in DOMAIN s : i < j => NameLess(s[i], s[j])

\* scan_local_files: the folders it walks for a chat name
candidate_dirs(present, chat_name) == {chat_name, sanitize_dirname(chat_name)} \cap present

\* the loop of sync_state over the chats to sync, from position i
RECURSIVE SyncChats(_, _, _, _, _)
SyncChats(names, i, existing, acc, dry_run) ==
    IF i > Len(names) \/ acc.raised # <<>> THEN acc
    ELSE LET chat_name == names[i]
             r == resolve_chat_id(acc.table, existing, chat_name)
             found_in == candidate_dirs(folders, chat_name)
         IN  IF r.raised THEN [acc EXCEPT !.raised = <<chat_name>>]
             ELSE SyncChats(names, i + 1, existing,
                    [table |-> r.table,
                     items |-> IF dry_run THEN acc.items
                               ELSE acc.items \cup {<<r.chat_id, f>> : f \in found_in},
                     rows |-> [acc.rows EXCEPT ![chat_name] = r.chat_id],
                     raised |-> <<>>],
                    dry_run)

\* sync_state.sync_state(backup_dir, dry_run=...)
SyncState(dry_run) ==
    /\ dry_run => dry_runs < MaxRuns
    /\ LET chats_to_sync == folders \cup {r.chat_name : r \in chats}
           o == SyncChats(sorted_chats(chats_to_sync), 1, chats,
                          [table |-> chats, items |-> chat_items, rows |-> sync_row,
                           raised |-> <<>>], dry_run)
           written == {t \in Titles : \E i \in o.items \ chat_items : i[2] = sanitize_dirname(t)}
       IN  /\ chats' = o.table
           /\ chat_items' = o.items
           /\ sync_row' = o.rows
           /\ holder' = [t \in Titles |-> IF t \in written THEN holder[t] \cup {"db"} ELSE holder[t]]
           /\ chat_errors' = chat_errors \cup Elems(o.raised)
    /\ dry_runs' = IF dry_run THEN dry_runs + 1 ELSE dry_runs
    /\ UNCHANGED <<folders, sm_row, disk, storeVars, dlVars, connVars, notChat>>

\* a backup run of one chat: download_from_chat creates the chat folder,
\* StateManager.__init__ opens the database and gets the chat's row, and the
\* run records a download
BackupChat(title, fallback) ==
    /\ folders' = folders \cup {sanitize_dirname(title)}
    /\ LET r == get_or_create_chat(chats, title, sanitize_for_filename(title))
       IN  IF ~r.raised
           THEN /\ chats' = r.table
                /\ sm_row' = [sm_row EXCEPT ![title] = r.chat_id]
                /\ chat_items' = chat_items \cup {<<r.chat_id, sanitize_dirname(title)>>}
                /\ holder' = [holder EXCEPT ![title] = @ \cup {"db"}]
                /\ UNCHANGED chat_errors
           ELSE /\ chat_errors' = chat_errors \cup {title}
                /\ holder' = [holder EXCEPT ![title] = IF fallback THEN @ \cup {"json"} ELSE @]
                /\ UNCHANGED <<chats, sm_row, chat_items>>
    /\ UNCHANGED <<sync_row, dry_runs, disk, storeVars, dlVars, connVars, notChat>>

InitChats ==
    /\ StoreIdle /\ DownloaderIdle /\ WritersIdle
    /\ PersistIdle /\ MigrateIdle /\ ValidateIdle /\ SyncIdle /\ ConsolidateIdle /\ TransferIdle
    /\ ScanIdle /\ RetryIdle /\ FaultIdle /\ PoolIdle
    /\ disk = [p \in Paths |-> 0]
    /\ chats = {}
    /\ chat_items = {}
    /\ folders \in SUBSET {sanitize_dirname(t) : t \in Titles}
    /\ holder = [t \in Titles |-> {}]
    /\ sm_row = [t \in Titles |-> 0]
    /\ sync_row = [n \in ChatNames |-> 0]
    /\ dry_runs = 0
    /\ chat_errors = {}
NextChats ==
    \/ \E title \in Titles, fallback \in BOOLEAN : BackupChat(title, fallback)
    \/ \E dry_run \in BOOLEAN : SyncState(dry_run)
SpecChats == InitChats /\ [][NextChats]_vars

\* ------------------------------------------------- the auto transfer
\* TransferState.add_downloaded_bytes (the state is saved by each method, so
\* the state in memory is the file)
add_downloaded_bytes(state, count) ==
    LET current == state.cumulative_bytes_since_transfer
    IN  [state EXCEPT !.cumulative_bytes_since_transfer =
            IF current + count > 0 THEN current + count ELSE 0]

\* TransferState.mark_transfer_completed
mark_transfer_completed(state, mode) ==
    [state EXCEPT !.last_transfer_mode = mode,
                  !.last_transfer_bytes = state.cumulative_bytes_since_transfer,
                  !.cumulative_bytes_since_transfer = 0]

\* if cumulative_bytes < threshold_bytes: return
BelowThreshold_OrAt(cumulative_bytes, threshold_bytes) == cumulative_bytes <= threshold_bytes
BelowThreshold(cumulative_bytes, threshold_bytes) == cumulative_bytes < threshold_bytes

\* TelegramMediaBackup._handle_auto_cloud_transfer: the file after a call
\* with the run's downloaded bytes, the threshold, whether a remote path is
\* configured, whether rclone is found, the mode, and whether rclone
\* completes (it raises otherwise)
handle_auto_cloud_transfer(state, count, threshold_bytes, remote_path, available, auto_cloud_mode, completes) ==
    LET added == add_downloaded_bytes(state, count)
        action == IF auto_cloud_mode \in {"copy", "move"} THEN auto_cloud_mode ELSE "copy"
    IN  IF BelowThreshold(added.cumulative_bytes_since_transfer, threshold_bytes) THEN added
        ELSE IF ~remote_path THEN added
        ELSE IF ~available THEN added
        ELSE IF completes THEN mark_transfer_completed(added, action)
        ELSE added

\* a backup run ends: count bytes were downloaded in it
AutoTransfer(count, threshold_bytes, remote_path, available, auto_cloud_mode, completes) ==
    /\ transfer_file.cumulative_bytes_since_transfer + count <= MaxBytes
    /\ transfer_file' = handle_auto_cloud_transfer(transfer_file, count, threshold_bytes,
                            remote_path, available, auto_cloud_mode, completes)
    /\ transfer_call' = [count |-> count, threshold |-> threshold_bytes,
                         remote_path |-> remote_path, available |-> available,
                         action |-> auto_cloud_mode, completes |-> completes,
                         before |-> transfer_file]
    /\ UNCHANGED <<disk, storeVars, dlVars, connVars, notTransfer>>

InitTransfer ==
    /\ StoreIdle /\ DownloaderIdle /\ WritersIdle /\ ToolsIdle
    /\ disk = [p \in Paths |-> 0]
NextTransfer ==
    \E count \in 0..MaxBytes, threshold_bytes \in 1..MaxBytes,
       remote_path \in BOOLEAN, available \in BOOLEAN,
       auto_cloud_mode \in {"copy", "move", "sync"}, completes \in BOOLEAN :
        AutoTransfer(count, threshold_bytes, remote_path, available, auto_cloud_mode, completes)
SpecTransfer == InitTransfer /\ [][NextTransfer]_vars

\* ------------------------------------------------- two tasks, one name
\* The retry loop with every message of a new backup directory in the pool.
InitRace ==
    /\ StoreIdle /\ WritersIdle /\ ToolsIdle
    /\ disk = [p \in Paths |-> 0]
    /\ sm \in {NewSM(TRUE), NewSM(FALSE)}
    /\ pc = [m \in Msgs |-> "ready"]
    /\ filepath = [m \in Msgs |-> <<0, 0>>]
    /\ retries = [m \in Msgs |-> 0]
    /\ fetched = [m \in Msgs |-> 0]
    /\ finished = <<>>
SpecRace == InitRace /\ [][NextRetry]_vars

\* ------------------------------------------------- files that move
\* Downloads are recorded and registered, files are renamed
\* (fix_extensions_in_directory with update_file_path), the index is pruned
\* and looked up.
NextFollow ==
    \/ \E m \in Msgs, p \in BasePaths : RecordDownload(m, p)
    \/ \E p \in BasePaths : Register(p)
    \/ \E old \in Paths, new \in Paths : UpdateFilePath(old, new)
    \/ \E k \in Keys : GsFindDuplicate(k)
    \/ Prune
SpecFollow == InitStore /\ [][NextFollow]_vars

\* ------------------------------------------------- errors of the store
\* A run constructs its StateManager and records downloads while the
\* persisted store may be damaged: the state file truncated, the database
\* file unreadable, writes failing.  live.db is the database file, live.state
\* the JSON state in memory, state_file the JSON state on disk.
Damage(what) ==
    /\ \/ /\ what = "state file" /\ state_file.kind = "whole"
          /\ state_file' = [kind |-> "partial", text |-> EmptyState]
          /\ UNCHANGED medium
       \/ /\ what = "database" /\ medium.db_ok
          /\ medium' = [medium EXCEPT !.db_ok = FALSE]
          /\ UNCHANGED state_file
       \/ /\ what = "writes" /\ medium.write_ok
          /\ medium' = [medium EXCEPT !.write_ok = FALSE]
          /\ UNCHANGED state_file
    /\ UNCHANGED <<run, reported, live, at, pending, committed, calls,
                   disk, storeVars, dlVars, connVars>>
    /\ UNCHANGED notPersistNorFault

\* StateManager.__init__ under config.DB_ENABLE = db_enable and
\* config.DB_LEGACY_JSON_FALLBACK = fallback
Open(db_enable, fallback) ==
    LET db_fails == db_enable /\ ~medium.db_ok
        raised == db_fails /\ ~fallback
        use_db == db_enable /\ ~db_fails
        unreadable == ~use_db /\ state_file.kind = "partial"
    IN  /\ run.phase # "running"
        /\ live' = IF raised THEN live
                   ELSE IF use_db THEN [live EXCEPT !.use_db = TRUE]
                   ELSE [live EXCEPT !.use_db = FALSE, !.state = load_state(state_file)]
        /\ run' = [phase |-> IF raised THEN "aborted" ELSE "running",
                   wanted_db |-> db_enable,
                   met_error |-> db_fails \/ unreadable,
                   write_failed |-> FALSE]
        /\ reported' = {}
        /\ UNCHANGED <<medium, state_file, at, pending, committed, calls,
                       disk, storeVars, dlVars, connVars>>
        /\ UNCHANGED notPersistNorFault

\* _download_media after a download of content c to path p: mark_downloaded,
\* whose except clauses and whose _save_state log a failed write and return,
\* then _update_progress(downloaded=1)
Mark(m, p, c) ==
    /\ run.phase = "running" /\ calls < MaxCalls
    /\ IF live.use_db
       THEN /\ live' = IF medium.write_ok THEN mark_downloaded(live, m, p, SizeOf(c), c) ELSE live
            /\ UNCHANGED state_file
       ELSE /\ live' = mark_downloaded_json(live, m, p, SizeOf(c), c)
            /\ state_file' = IF medium.write_ok THEN [kind |-> "whole", text |-> live'.state]
                             ELSE state_file
    /\ run' = [run EXCEPT !.write_failed = @ \/ ~medium.write_ok]
    /\ reported' = reported \cup {m}
    /\ calls' = calls + 1
    /\ UNCHANGED <<medium, at, pending, committed, disk, storeVars, dlVars, connVars>>
    /\ UNCHANGED notPersistNorFault

\* the run ends
Finish ==
    /\ run.phase = "running"
    /\ run' = [run EXCEPT !.phase = "ended"]
    /\ UNCHANGED <<medium, reported, persistVars, disk, storeVars, dlVars, connVars>>
    /\ UNCHANGED notPersistNorFault

InitFault ==
    /\ StoreIdle /\ DownloaderIdle /\ WritersIdle /\ ToolsIdle
    /\ disk = [p \in Paths |-> 0]
NextFault ==
    \/ \E what \in {"state file", "database", "writes"} : Damage(what)
    \/ \E db_enable, fallback \in BOOLEAN : Open(db_enable, fallback)
    \/ \E m \in Msgs, p \in BasePaths, c \in Contents : Mark(m, p, c)
    \/ Finish
SpecFault == InitFault /\ [][NextFault]_vars

\* ------------------------------------------------------ the worker pool
\* _process_messages: one task per message the source returns, at most
\* max_concurrent_downloads of them in the set running_tasks.
\* config.DEFAULT_DOWNLOAD_CONCURRENCY
DEFAULT_DOWNLOAD_CONCURRENCY == 3
\* MediaDownloader.__init__: max(1, int(arg or default)); None is 0
Concurrency(arg) ==
    LET wanted == IF arg # 0 THEN arg ELSE DEFAULT_DOWNLOAD_CONCURRENCY
    IN  IF wanted > 1 THEN wanted ELSE 1
PoolFull_OneLate(running, max) == Cardinality(running) > max
PoolFull(running, max) == Cardinality(running) >= max
InFlight == {m \in Items : task[m] = "running"}
Ended == {m \in Items : task[m] \in {"done", "raised"}}

\* the iterator yields the next message: create_task, running_tasks.add
NextMessage ==
    /\ loop = "iterating" /\ to_yield # <<>>
    /\ LET m == Head(to_yield)
       IN  /\ started' = Append(started, m)
           /\ task' = [task EXCEPT ![m] = "running"]
           /\ running_tasks' = running_tasks \cup {m}
           /\ loop' = IF PoolFull(running_tasks \cup {m}, limit) THEN "waiting" ELSE "iterating"
    /\ to_yield' = Tail(to_yield)
    /\ UNCHANGED <<limit, messages, disk, storeVars, dlVars, connVars, notPool>>

\* process_single_message returns, or its except clause has caught an
\* exception of the download and marked the message failed
TaskEnds(m, raised) ==
    /\ task[m] = "running"
    /\ task' = [task EXCEPT ![m] = IF raised THEN "raised" ELSE "done"]
    /\ sm' = IF raised THEN mark_failed(sm, m) ELSE sm
    /\ UNCHANGED <<limit, messages, to_yield, started, running_tasks, loop>>
    /\ UNCHANGED <<pc, filepath, retries, fetched, finished, disk, storeVars, connVars, notPool>>

\* asyncio.wait(running_tasks, return_when=FIRST_COMPLETED) returns
WaitReturns ==
    /\ loop = "waiting" /\ running_tasks \cap Ended # {}
    /\ running_tasks' = running_tasks \ Ended
    /\ loop' = "iterating"
    /\ UNCHANGED <<limit, messages, to_yield, started, task, disk, storeVars, dlVars, connVars, notPool>>

\* the iterator is exhausted: asyncio.gather(*running_tasks) and return
Gather ==
    /\ loop = "iterating" /\ to_yield = <<>>
    /\ loop' = IF running_tasks = {} THEN "returned" ELSE "gathering"
    /\ UNCHANGED <<limit, messages, to_yield, started, running_tasks, task,
                   disk, storeVars, dlVars, connVars, notPool>>
GatherReturns ==
    /\ loop = "gathering" /\ running_tasks \subseteq Ended
    /\ loop' = "returned"
    /\ UNCHANGED <<limit, messages, to_yield, started, running_tasks, task,
                   disk, storeVars, dlVars, connVars, notPool>>

\* iter_messages lists the newest message first
Candidates ==
    {s \in UNION {[1..n -> Items] : n \in 0..MaxItems} : \A i, j \in DOMAIN s : i < j => s[i] > s[j]}
InitPool ==
    /\ StoreIdle /\ WritersIdle
    /\ PersistIdle /\ MigrateIdle /\ ValidateIdle /\ SyncIdle /\ ConsolidateIdle /\ ChatIdle /\ TransferIdle
    /\ ScanIdle /\ RetryIdle /\ FaultIdle
    /\ disk = [p \in Paths |-> 0]
    /\ sm \in {NewSM(TRUE), NewSM(FALSE)}
    /\ pc = [m \in Msgs |-> "none"]
    /\ filepath = [m \in Msgs |-> <<0, 0>>]
    /\ retries = [m \in Msgs |-> 0]
    /\ fetched = [m \in Msgs |-> 0]
    /\ finished = <<>>
    /\ \E arg \in -1..MaxPool : limit = Concurrency(arg)
    /\ messages \in Candidates
    /\ to_yield = messages
    /\ started = <<>>
    /\ running_tasks = {}
    /\ task = [m \in Items |-> "none"]
    /\ loop = "iterating"
NextPool ==
    \/ NextMessage
    \/ \E m \in Items, raised \in BOOLEAN : TaskEnds(m, raised)
    \/ WaitReturns
    \/ Gather
    \/ GatherReturns
SpecPool == InitPool /\ [][NextPool]_vars

\* ------------------------------------------------------------- C20
\* C20: after any number of consolidation runs, also when a quarantine path
\* from an earlier run is occupied, the bytes of the files in the tree,
\* canonical and quarantined, equal the bytes put there, and every file is
\* still in place or relocated: none is deleted or overwritten.
RECURSIVE TreeBytes(_)
TreeBytes(files) ==
    IF files = {} THEN 0
    ELSE LET f == CHOOSE x \in files : TRUE
         IN  SizeOf(f.content) + TreeBytes(files \ {f})
C20_ContentConserved ==
    LET present == Present(folder) \cup Present(quarantine)
    IN  /\ TreeBytes(present) = TreeBytes(placed)
        /\ placed \subseteq present

\* ------------------------------------------------------------- C19
\* C19: a listed file with no id in its name gets an id only through an
\* exact match on a recorded local (remote) path, or through a basename that
\* exactly one existing record shares; when several existing records share
\* the basename the file gets none of their ids.
SharingLocal(rows, b) ==
    {r \in rows : RowLocalPath(r) # NoSyncPath /\ basename(RowLocalPath(r)) = b}
SharingRemote(rows, b) ==
    {r \in rows : r.remote_path # NoSyncPath /\ basename(r.remote_path) = b}
JustifiedId(k, exact, sharing) ==
    \/ \E r \in exact : r.message_id = k
    \/ Cardinality(sharing) = 1 /\ \A r \in sharing : r.message_id = k
C19_AmbiguousNeverGuessed ==
    runs >= 1 =>
        /\ \A i \in 1..Len(last.local) :
            LET rec == last.local[i]
                rows == last.before.messages
            IN  (extract_message_id_from_filename(rec.filename) = 0 /\ rec.message_id # 0) =>
                    JustifiedId(rec.message_id,
                                {r \in rows : RowLocalPath(r) = rec.local_path},
                                SharingLocal(rows, rec.filename))
        /\ \A i \in 1..Len(last.remote) :
            LET rec == last.remote[i]
                rows == last.before.messages
            IN  (extract_message_id_from_filename(rec.filename) = 0 /\ rec.message_id # 0) =>
                    JustifiedId(rec.message_id,
                                {r \in rows : r.remote_path = rec.remote_path},
                                SharingRemote(rows, rec.filename))

\* ------------------------------------------------------------- C17
\* C17: running sync_state a second time with the same listings and the
\* store the first run left changes no item record, status, resolved
\* identity, counter or hash index entry (timestamps aside).
Untimed(db) ==
    [messages |-> {[message_id |-> r.message_id, file_path |-> r.file_path,
                    file_size |-> r.file_size, sample_hash |-> r.sample_hash,
                    local_path |-> r.local_path, remote_path |-> r.remote_path,
                    storage_status |-> r.storage_status] : r \in db.messages},
     message_status |-> db.message_status,
     file_hashes |-> db.file_hashes,
     duplicates |-> db.duplicates,
     total_files |-> db.total_files,
     total_bytes |-> db.total_bytes,
     last_message_id |-> db.last_message_id]
C17_SecondRunChangesNothing ==
    runs >= 2 => Untimed(store) = Untimed(last.before)

\* ------------------------------------------------------------- C18
\* C18: after a run every resolved id present only in the local listing has
\* state local, only in the remote listing remote, in both both, and every
\* id that had a record but is in neither listing has state missing, its
\* record retained.  Local 1, 2, 3, remote 2, 3, 4, recorded 1, 2, 5 gives
\* 1 local, 2 both, 3 both, 4 remote, 5 missing.
RowsOf(db, m) == {r \in db.messages : r.message_id = m}
StorageStatus(db, m) == {r.storage_status : r \in RowsOf(db, m)}
Retained(before, after, m) ==
    /\ RowsOf(after, m) = {[r EXCEPT !.storage_status = "missing"] : r \in RowsOf(before, m)}
    /\ get_message_status(after, m) = "missing"
C18_StateFollowsListings ==
    runs >= 1 =>
        LET inLocal == IdsOf(last.local)
            inRemote == IdsOf(last.remote)
            recorded == {r.message_id : r \in last.before.messages}
        IN  /\ \A m \in inLocal \ inRemote : StorageStatus(store, m) = {"local"}
            /\ \A m \in inRemote \ inLocal : StorageStatus(store, m) = {"remote"}
            /\ \A m \in inLocal \cap inRemote : StorageStatus(store, m) = {"both"}
            /\ \A m \in recorded \ (inLocal \cup inRemote) :
                    /\ StorageStatus(store, m) = {"missing"}
                    /\ Retained(last.before, store, m)
            /\ (local_tree = ExampleLocal /\ remote_tree = ExampleRemote
                    /\ Untimed(last.before) = Untimed(ExampleStore)) =>
                    /\ StorageStatus(store, 1) = {"local"}
                    /\ StorageStatus(store, 2) = {"both"}
                    /\ StorageStatus(store, 3) = {"both"}
                    /\ StorageStatus(store, 4) = {"remote"}
                    /\ StorageStatus(store, 5) = {"missing"}
C18_Witness ==
    /\ runs = 1
    /\ local_tree = ExampleLocal /\ remote_tree = ExampleRemote
    /\ last.before = ExampleStore
    /\ StorageStatus(store, 1) = {"local"}
    /\ StorageStatus(store, 4) = {"remote"}
    /\ StorageStatus(store, 5) = {"missing"}
    /\ Cardinality(store.messages) = 5

\* ------------------------------------------------------------- C21
\* C21: of every duplicate group the consolidator keeps a file the item store
\* already references when the group has one, and otherwise the
\* lexicographically first path; exactly one file of the group stays in place.
Referenced(s) ==
    {n \in Names : \E m \in Msgs : RecordIn(s, m) # NoRecord /\ RecordIn(s, m).path = InChat(n)}
InPlace(g) == {n \in g : folder[n] # NoFileAt /\ folder[n] = last_sweep.folder[n]}
C21_CanonicalChoice ==
    \A g \in last_sweep.groups :
        /\ Cardinality(InPlace(g)) = 1
        /\ IF g \cap Referenced(last_sweep.book) # {}
           THEN InPlace(g) \subseteq Referenced(last_sweep.book)
           ELSE InPlace(g) = {Min(g)}

\* ------------------------------------------------------------- C22
\* C22: after a consolidation run every item record whose path was the old
\* location of a relocated file holds the file's quarantine path, so no
\* record points at a location the run emptied; in both backends and for
\* the command line entry.
C22_RecordsFollowFiles ==
    \A n \in last_sweep.moved : \A m \in Msgs :
        (RecordIn(last_sweep.book, m) # NoRecord /\ RecordIn(last_sweep.book, m).path = InChat(n))
            => RecordIn(book, m).path = InQuarantine(n)

\* ------------------------------------------------------------- C23
\* C23: the groups find_duplicates returns are exactly the classes of two or
\* more scanned, readable files with the same size and the same full hash:
\* every group has at least two members, which agree on size, sample
\* digest and full hash, no file is in two groups, and two readable files
\* of equal size and full hash are in one group.
LastScan == scan_log[Len(scan_log)]
ScannedFiles == {p \in PresentPaths(scan_root) : scan_root[p].kind # "symlink"}
ReadableFiles == {p \in ScannedFiles : scan_root[p].kind = "file"}
SameContent(p, q) ==
    /\ SizeOf(scan_root[p].content) = SizeOf(scan_root[q].content)
    /\ scan_root[p].content = scan_root[q].content
DuplicateClasses ==
    {c \in {{q \in ReadableFiles : SameContent(p, q)} : p \in ReadableFiles} : Cardinality(c) >= 2}
C23_GroupsAreTheClasses ==
    scan_log # <<>> =>
        LET groups == LastScan.duplicates
        IN  /\ {Elems(groups[i]) : i \in DOMAIN groups} = DuplicateClasses
            /\ \A i, j \in DOMAIN groups : Elems(groups[i]) \cap Elems(groups[j]) # {} => i = j
            /\ \A i \in DOMAIN groups :
                /\ Len(groups[i]) = Cardinality(Elems(groups[i]))
                /\ Len(groups[i]) >= 2
                /\ \A p, q \in Elems(groups[i]) :
                    /\ SameContent(p, q)
                    /\ \A sample_size \in 0..1 :
                           sample_hash_file(scan_root[p], sample_size)
                               = sample_hash_file(scan_root[q], sample_size)
C23_Witness ==
    /\ scan_log # <<>>
    /\ Len(LastScan.duplicates) = 1
    /\ \E p \in Elems(LastScan.duplicates[1]) :
        /\ \E q \in ScannedFiles \ ReadableFiles :
               SizeOf(scan_root[q].content) = SizeOf(scan_root[p].content)
        /\ \E q \in ReadableFiles :
            /\ SizeOf(scan_root[q].content) = SizeOf(scan_root[p].content)
            /\ ~SameContent(p, q)

\* ------------------------------------------------------------- C24
\* C24: two scans of an unchanged tree show the same output whatever order
\* the walk listed the files in: the paths of each group are in
\* lexicographic order and the groups are in the order of their path lists.
InOrder(output) ==
    /\ \A i \in DOMAIN output : \A k \in 1..(Len(output[i]) - 1) :
           PathLess(output[i][k], output[i][k + 1])
    /\ \A i \in 1..(Len(output) - 1) : ListLess(output[i], output[i + 1])
C24_SameOutputEveryScan ==
    /\ \A i \in DOMAIN scan_log : InOrder(scan_log[i].output)
    /\ \A i, j \in DOMAIN scan_log :
           scan_log[i].json_out = scan_log[j].json_out => scan_log[i].output = scan_log[j].output
C24_Witness ==
    /\ Len(scan_log) = 2
    /\ scan_log[1].json_out = scan_log[2].json_out
    /\ Len(scan_log[1].duplicates) = 2
    /\ scan_log[1].duplicates # scan_log[2].duplicates
    /\ scan_log[1].output = scan_log[2].output

\* ------------------------------------------------------------- C25
\* C25: no group the scanner reports holds a hidden file, a symlink or a
\* file of the quarantine subtree, and every regular file that is not
\* hidden and not in the quarantine subtree is scanned, also in a
\* directory whose name only contains the quarantine folder's name.
C25_OnlyEligibleFilesGrouped ==
    scan_log # <<>> =>
        /\ \A i \in DOMAIN LastScan.output : \A p \in Elems(LastScan.output[i]) :
               /\ ~Hidden(p)
               /\ scan_root[p].kind # "symlink"
               /\ ~Quarantined(p)
        /\ \A p \in PresentPaths(scan_root) :
               (scan_root[p].kind # "symlink" /\ ~Hidden(p) /\ ~Quarantined(p))
                   => p \in LastScan.scanned

\* ------------------------------------------------------------- C26
\* C26: an item whose every fetch failed with a transient error has been
\* attempted at most MAX_RETRIES times, each wait between two attempts is
\* double the wait before it, and after the MAX_RETRIES-th failure the item
\* is marked failed.
Count(seq, what) == Cardinality({i \in DOMAIN seq : seq[i] = what})
Only(t, what) == history[t] # <<>> /\ Count(history[t], what) = Len(history[t])
C26_TransientBackoff ==
    \A t \in Msgs : Only(t, "error") =>
        /\ Len(history[t]) <= MAX_RETRIES
        /\ \A i \in 1..(Len(slept[t]) - 1) : slept[t][i + 1] = 2 * slept[t][i]
        /\ Len(history[t]) = MAX_RETRIES => (pc[t] = "failed" /\ is_message_failed(sm, t))

\* ------------------------------------------------------------- C27
\* C27: a rate-limit response consumes none of the item's retry attempts:
\* the retries counter counts the failed and the empty fetches only, and no
\* item is given up without a mark.
C27_RateLimitCostsNothing ==
    \A t \in Msgs :
        /\ retries[t] = Count(history[t], "error") + Count(history[t], "empty")
        /\ pc[t] # "returned"

\* ------------------------------------------------------------- C28
\* C28: after a fetch that produced a zero-byte file the file is gone and
\* the item is fetched again unless the attempts are used up; no zero-byte
\* file is on disk; an item with MAX_RETRIES zero-byte results is marked
\* failed and not recorded as downloaded.
C28_EmptyResultRetried ==
    \A t \in Msgs :
        /\ \A p \in Paths : disk[p] # EmptyFile
        /\ (history[t] # <<>> /\ history[t][Len(history[t])] = "empty") =>
              /\ disk[filepath[t]] = 0
              /\ ~is_message_downloaded(sm, t)
              /\ pc[t] = IF retries[t] < MAX_RETRIES THEN "downloading" ELSE "failed"
        /\ Count(history[t], "empty") = MAX_RETRIES =>
              /\ pc[t] = "failed"
              /\ is_message_failed(sm, t)
              /\ ~is_message_downloaded(sm, t)
C28_Witness ==
    \E t \in Msgs :
        /\ Only(t, "empty")
        /\ Len(history[t]) = MAX_RETRIES
        /\ is_message_failed(sm, t)
        /\ disk[filepath[t]] = 0

\* ------------------------------------------------------------- C29
\* C29: an item whose fetch met a FILE_REFERENCE error is marked failed at
\* once and is not fetched again.
C29_ExpiredReferenceFails ==
    \A t \in Msgs : Count(history[t], "file_reference") > 0 =>
        /\ history[t][Len(history[t])] = "file_reference"
        /\ pc[t] # "downloading"
        /\ is_message_failed(sm, t)

\* ------------------------------------------------------------- C30
\* C30: an error of the store is fatal: a run whose store was unreadable at
\* load, or one of whose writes failed, has aborted; a run that goes on
\* uses the backend it was configured for, and every item it reported as
\* downloaded has its record in the persisted store.
Written(m) ==
    IF live.use_db THEN db_is_message_downloaded(live.db, m)
    ELSE state_file.kind = "whole" /\ DmHas(state_file.text, Str(m))
C30_StoreErrorsAreFatal ==
    /\ run.met_error => run.phase = "aborted"
    /\ run.write_failed => run.phase = "aborted"
    /\ run.phase \in {"running", "ended"} =>
          /\ live.use_db = run.wanted_db
          /\ \A m \in reported : Written(m)

\* ------------------------------------------------------------- C31
\* C31: at every moment of _process_messages the number of download tasks
\* in flight is at most max_concurrent_downloads, which is at least 1 and
\* is 3 when no value is given.
C31_PoolBounded ==
    /\ limit >= 1
    /\ Cardinality(InFlight) <= limit
    /\ Concurrency(0) = 3
C31_Witness ==
    /\ limit = 3
    /\ Cardinality(InFlight) = limit
    /\ loop = "waiting"
    /\ to_yield # <<>>

\* ------------------------------------------------------------- C36
\* C36: when _process_messages returns, one task was started for each
\* message the source returned, and no other; every started task has
\* ended; each message whose task met an error is marked failed, and the
\* messages after it were processed all the same.
C36_EveryCandidateProcessed ==
    /\ \A i \in DOMAIN started : started[i] = messages[i]
    /\ \A m \in Items : task[m] = "raised" => is_message_failed(sm, m)
    /\ loop = "returned" =>
          /\ started = messages
          /\ \A i \in DOMAIN started : task[started[i]] \in {"done", "raised"}
C36_Witness ==
    /\ loop = "returned"
    /\ Len(messages) = MaxItems
    /\ limit = 2
    /\ task[messages[1]] = "raised"
    /\ task[messages[MaxItems]] = "done"

\* ------------------------------------------------------------- C35
\* C35: every call of _download_media that has returned left an outcome
\* for its message: the message is recorded as downloaded, skipped, failed
\* or as a duplicate; no call returns with nothing recorded, repeated
\* rate-limit responses included.
Returned(t) == pc[t] \notin {"none", "ready", "downloading"}
Outcome(t) ==
    \/ is_message_downloaded(sm, t)
    \/ is_message_skipped(sm, t)
    \/ is_message_failed(sm, t)
    \/ is_duplicate(sm, t) # <<>>
C35_EveryReturnRecorded == \A t \in Msgs : Returned(t) => Outcome(t)

\* ------------------------------------------------------------- C33
\* C33: a message is fetched only if, when it is processed, it has no
\* record that validates as intact, is not recorded as skipped and is not
\* linked as a duplicate; and a message that an earlier run recorded as
\* failed, and that none of these three excludes, is fetched.
Excluded(t) ==
    \/ validate_downloaded_file(sm, disk, t)
    \/ is_message_skipped(sm, t)
    \/ is_duplicate(sm, t) # <<>>
C33_FetchedWhenNotIntact ==
    [][\A t \in Msgs :
        pc[t] = "ready" /\ pc'[t] # "ready" =>
            /\ pc'[t] = "downloading" => ~Excluded(t)
            /\ (is_message_failed(sm, t) /\ ~Excluded(t)) => pc'[t] = "downloading"]_vars

\* ------------------------------------------------------------- C32
\* C32: a dry run of sync_state leaves the state database as it was: the
\* chats table and the message rows after the run are those of before.
C32_DryRunChangesNothing ==
    [][dry_runs' # dry_runs => (chats' = chats /\ chat_items' = chat_items)]_vars

\* ------------------------------------------------------------- C40
\* C40: a chat has one identity: the row sync_state resolves for the chat's
\* folder is the row the chat's StateManager got; get_or_create_chat has
\* raised for no name; and no chat has records both in the database and in
\* a JSON state file.
C40_OneIdentity ==
    /\ \A t \in Titles :
          (sm_row[t] # 0 /\ sync_row[sanitize_dirname(t)] # 0) =>
              sync_row[sanitize_dirname(t)] = sm_row[t]
    /\ chat_errors = {}
    /\ \A t \in Titles : holder[t] # {"db", "json"}

\* ------------------------------------------------------------- C34
\* C34: after a call of the auto-transfer handler the cumulative counter is
\* 0 with last_transfer_bytes the accumulated amount when the threshold was
\* reached, a remote is configured, rclone is found and the transfer
\* completed; in every other case the counter is the accumulated amount
\* and last_transfer_bytes is as before; the counter is never negative.
Accumulated == transfer_call.before.cumulative_bytes_since_transfer + transfer_call.count
Transferred ==
    /\ Accumulated >= transfer_call.threshold
    /\ transfer_call.remote_path
    /\ transfer_call.available
    /\ transfer_call.completes
C34_ResetOnlyBySuccess ==
    /\ transfer_file.cumulative_bytes_since_transfer >= 0
    /\ transfer_call # NoTransferCall =>
        IF Transferred
        THEN /\ transfer_file.cumulative_bytes_since_transfer = 0
             /\ transfer_file.last_transfer_bytes = Accumulated
        ELSE /\ transfer_file.cumulative_bytes_since_transfer = Accumulated
             /\ transfer_file.last_transfer_bytes = transfer_call.before.last_transfer_bytes
C34_Witness ==
    /\ Transferred
    /\ Accumulated = transfer_call.threshold
    /\ transfer_call.before.cumulative_bytes_since_transfer > 0
    /\ transfer_call.before.last_transfer_bytes > 0
    /\ transfer_file.last_transfer_bytes = Accumulated

\* ------------------------------------------------------------- C37
\* C37: two download tasks that are fetching at the same time write to
\* different file paths.
C37_DistinctPathsInFlight ==
    \A t1, t2 \in Msgs :
        (t1 # t2 /\ pc[t1] = "downloading" /\ pc[t2] = "downloading") =>
            filepath[t1] # filepath[t2]

\* ------------------------------------------------------------- C38
\* C38: two distinct messages are never both recorded as downloaded with
\* the same local path.
RecordedPath(s, m) ==
    IF s.use_db THEN (CHOOSE r \in s.db.messages : r.message_id = m).file_path
    ELSE DmGet(s.state, Str(m)).path
C38_OnePathOneItem ==
    \A m1, m2 \in Msgs :
        (m1 # m2 /\ is_message_downloaded(sm, m1) /\ is_message_downloaded(sm, m2)) =>
            RecordedPath(sm, m1) # RecordedPath(sm, m2)

\* ------------------------------------------------------------- C39
\* C39: the hash index follows the files: when a content key has an index
\* entry that points to an existing file, and after a step a file of that
\* content is recorded and present on disk, the key still has an entry
\* that points to an existing file; in the SQLite and in the JSON backend.
HealthyEntry(s, d, k) == IndexEntry(s, k) # <<>> /\ Exists(d, IndexEntry(s, k)[1])
RecordedAndPresent(s, d, k) ==
    \E m \in Msgs :
        /\ is_message_downloaded(s, m)
        /\ Exists(d, RecordedPath(s, m))
        /\ KeyOfFile(d, RecordedPath(s, m)) = k
C39_IndexFollowsFiles ==
    [][\A k \in Keys :
        /\ (HealthyEntry(sqlSM, disk, k) /\ RecordedAndPresent(sqlSM', disk', k))
              => HealthyEntry(sqlSM', disk', k)
        /\ (HealthyEntry(jsonSM, disk, k) /\ RecordedAndPresent(jsonSM', disk', k))
              => HealthyEntry(jsonSM', disk', k)]_vars

=============================================================================
